---- MODULE Spec2Model ----
(***************************************************************************)
(* Model of the letsorder backend (backend/src): the relational store, the *)
(* public order pipeline (order_handlers.rs), the menu writes that race    *)
(* with it (menu_handlers.rs) and the restaurant / manager / invite        *)
(* handlers (handlers.rs).                                                 *)
(*                                                                         *)
(* Store tables are sets of rows.  A row carries the columns the handlers  *)
(* read or write; the field "by" is a history field naming the request     *)
(* that wrote the row.  Prices are f64 in the code; the model uses small   *)
(* naturals, on which the code's arithmetic (price * quantity, +=) is      *)
(* exact.  Fresh UUIDs are modelled by identifiers not yet in the store.   *)
(***************************************************************************)
EXTENDS Integers, Sequences, FiniteSets, TLC

VARIABLES users, restaurants, managers, invites, tables, sections, items,
          orders, now, ord, create, join, resp, hist, auth, reg, tab, contact, inv, reset_tokens, reset

store == <<users, restaurants, managers, invites, tables, sections, items, orders>>
vars == <<users, restaurants, managers, invites, tables, sections, items,
          orders, now, ord, create, join, resp, hist, auth, reg, tab, contact, inv, reset_tokens, reset>>

----------------------------------------------------------------------------
(* Bounds of the model                                                     *)

MaxLines == 2
MaxQty == 2
MaxPrice == 2
MaxTime == 3

(* Clock ticks per calendar day (UTC) of the model's clock.                *)
TicksPerDay == 2
MaxSections == 1

----------------------------------------------------------------------------
(* Identifiers                                                             *)

NoneId == "none"
OrdProcs == {"o1"}
JoinProcs == {"j1", "j2"}
CreateProcs == {"c1", "c2"}

RestaurantA == "rA"
RestaurantB == "rB"

(* menu item ids a client may name: one item of each restaurant and an id  *)
(* that matches no row                                                     *)
ItemRefs == {"iA", "iB", "iX"}
TableCodes == {"codeA", "ZZZZZZZZ"}
Quantities == 0..MaxQty
Prices == 1..MaxPrice

(* the lines of a request: item id, quantity and the optional              *)
(* special_requests text (NoneId when absent)                              *)
RequestLines ==
    [menu_item_id : ItemRefs, quantity : Quantities, special_requests : {NoneId}]
    \cup {[menu_item_id |-> "iA", quantity |-> 1, special_requests |-> "no onions"]}

----------------------------------------------------------------------------
(* Responses of the handlers that are modelled as one step: resp is the    *)
(* latest request and its status.  A specification that does not observe   *)
(* these responses starts with resp = Untracked, which Response leaves     *)
(* alone.                                                                  *)

NoResp ==
    [op |-> "none", caller |-> NoneId, rid |-> NoneId,
     target |-> NoneId, flag |-> FALSE, status |-> 0, data |-> {}]

Untracked == [NoResp EXCEPT !.op = "untracked"]

Response(op, caller, rid, target, flag, status) ==
    IF resp.op = "untracked" THEN resp ELSE
    [op |-> op, caller |-> caller, rid |-> rid,
     target |-> target, flag |-> flag, status |-> status, data |-> {}]

(* a response that carries rows: data is the set of rows in its body       *)
ResponseData(op, caller, rid, target, status, data) ==
    [Response(op, caller, rid, target, FALSE, status) EXCEPT !.data = data]

----------------------------------------------------------------------------
(* Queries                                                                 *)

(* SELECT ... FROM tables WHERE unique_code = ?                            *)
FindAnyTable(tbls, code) == tbls

FindTableByCode(tbls, code) == {t \in tbls : t.unique_code = code}

(* SELECT mi.* FROM menu_items mi JOIN menu_sections ms                    *)
(*   ON mi.section_id = ms.id                                              *)
(*   WHERE mi.id = ? AND ms.restaurant_id = ? AND mi.available = TRUE      *)
FindOrderableItemAnyRestaurant(itms, secs, item_id, restaurant_id) ==
    {mi \in itms : mi.id = item_id /\ mi.available}

FindOrderableItem(itms, secs, item_id, restaurant_id) ==
    {mi \in itms :
        /\ mi.id = item_id
        /\ mi.available
        /\ \E ms \in secs : ms.id = mi.section_id /\ ms.restaurant_id = restaurant_id}

(* SELECT ms.restaurant_id FROM menu_items mi JOIN menu_sections ms        *)
(*   ON mi.section_id = ms.id WHERE mi.id = ?                              *)
ItemRestaurant(itms, secs, item_id) ==
    {ms.restaurant_id : ms \in {s \in secs : \E mi \in itms : mi.id = item_id /\ mi.section_id = s.id}}

(* SELECT COUNT of rows ... WHERE restaurant_id = ? AND user_id = ?             *)
(*   AND can_manage_menu = TRUE, read with fetch_one                       *)
MenuPermissionByRole(mgrs, restaurant_id, user_id) ==
    Cardinality({m \in mgrs : m.restaurant_id = restaurant_id /\ m.user_id = user_id
                              /\ m.role = "super_admin"})

MenuPermissionCount(mgrs, restaurant_id, user_id) ==
    Cardinality({m \in mgrs : m.restaurant_id = restaurant_id /\ m.user_id = user_id
                              /\ m.can_manage_menu})

----------------------------------------------------------------------------
(* History: facts about past requests that the properties refer to.        *)
(*   revoked  : <<restaurant, user, axis>> whose membership ("member") or  *)
(*              menu capability ("menu") was taken away and not regranted  *)
(*   gone     : ids of deleted restaurants (a fresh UUID never equals one) *)
(*   redeemed : <<restaurant, token>> of invites consumed by a commit      *)
(*   failed   : <<restaurant, token>> whose redemption failed in its       *)
(*              transaction after the user row was written                 *)

NoHist == [revoked |-> {}, gone |-> {}, redeemed |-> {}, failed |-> {}]

----------------------------------------------------------------------------
(* Time.  The clock counts ticks; TicksPerDay ticks make one UTC day.      *)

DayOf(t) == t \div TicksPerDay
TimeOfDay(t) == t % TicksPerDay

(* A chrono DateTime<Utc> bound to a statement is stored as RFC 3339 text, *)
(* "YYYY-MM-DD" "T" "HH:MM:SS+00:00": date, the separator 'T' (code 84),   *)
(* time of day.                                                            *)
Rfc3339(t) == <<DayOf(t), 84, TimeOfDay(t)>>

(* SQLite datetime('now') is the text "YYYY-MM-DD" " " "HH:MM:SS": date,   *)
(* a space (code 32), time of day.                                         *)
SqliteDatetimeNow(t) == <<DayOf(t), 32, TimeOfDay(t)>>

(* a > b on two texts: the first differing component decides               *)
TextGreater(a, b) ==
    \/ a[1] > b[1]
    \/ a[1] = b[1] /\ a[2] > b[2]
    \/ a[1] = b[1] /\ a[2] = b[2] /\ a[3] > b[3]

(* the SQL condition  expires_at > datetime('now')                         *)
SqlUnexpired(expires_at, t) == TextGreater(Rfc3339(expires_at), SqliteDatetimeNow(t))

(* Utc::now() + Duration::days(7)                                          *)
InviteExpiry(t) == t + 7 * TicksPerDay

tick ==
    /\ now < MaxTime
    /\ now' = now + 1
    /\ UNCHANGED <<store, ord, create, join, resp, hist, auth, reg, tab, contact, inv, reset_tokens, reset>>

----------------------------------------------------------------------------
(* An aggregate SELECT COUNT without GROUP BY returns exactly one row,     *)
(* whatever the count is; fetch_optional hands that row over as Some(row), *)
(* fetch_one as the row.  The result set is modelled as a set of rows.     *)

CountQuery(matching) == {[count |-> Cardinality(matching)]}

ManagerRows(mgrs, restaurant_id, user_id) ==
    {m \in mgrs : m.restaurant_id = restaurant_id /\ m.user_id = user_id}

SuperAdminRows(mgrs, restaurant_id, user_id) ==
    {m \in ManagerRows(mgrs, restaurant_id, user_id) : m.role = "super_admin"}

(* SELECT ... FROM users WHERE email = ?                                   *)
FindUserByEmail(usrs, email) == {u \in usrs : u.email = email}

----------------------------------------------------------------------------
(* Transactions.  pool.begin() opens a deferred SQLite transaction on one  *)
(* pooled connection: its first read fixes the snapshot it sees (snap),    *)
(* its first write takes the database write lock (locked), and a write     *)
(* fails when another connection has committed since the snapshot (stale). *)
(* Statements executed on the transaction are collected in tx and reach    *)
(* the store at commit; a Transaction dropped without commit (every early  *)
(* return of the handler) is rolled back.  A statement executed on the     *)
(* pool commits on its own and waits for the write lock.                   *)

EmptyTx == [users |-> {}, managers |-> {}, del_invites |-> {}]

TxMerge(a, b) ==
    [users |-> a.users \cup b.users, managers |-> a.managers \cup b.managers,
     del_invites |-> a.del_invites \cup b.del_invites]

NoBefore == [users |-> {}, managers |-> {}, invites |-> {}]

IdleJoin ==
    [pc |-> "idle", restaurant_id |-> NoneId, token |-> NoneId, email |-> NoneId,
     invite |-> {}, user_id |-> NoneId, tx |-> EmptyTx,
     snap |-> FALSE, locked |-> FALSE, stale |-> FALSE, status |-> 0,
     at |-> 0, failed |-> NoneId, retry |-> FALSE, prior |-> FALSE, before |-> NoBefore,
     error |-> NoneId]

(* a create_restaurant request: its transaction writes before it reads, so *)
(* it has no snapshot to go stale                                          *)
EmptyCreateTx == [restaurants |-> {}, managers |-> {}]

IdleCreate ==
    [pc |-> "idle", caller |-> NoneId, name |-> NoneId, restaurant_id |-> NoneId,
     tx |-> EmptyCreateTx, locked |-> FALSE, status |-> 0, failed |-> NoneId]

CreateUnlocked(p) == \A c \in DOMAIN create \ {p} : ~create[c].locked

JoinUnlocked(p) == \A q \in DOMAIN join \ {p} : ~join[q].locked

(* no request, or none but p, holds the database write lock *)
NoWriteLock == JoinUnlocked(NoneId) /\ CreateUnlocked(NoneId)
OthersUnlocked(p) == JoinUnlocked(p) /\ CreateUnlocked(p)

(* a commit by `writer` outdates the snapshot of every other open          *)
(* transaction                                                             *)
Invalidate(j, writer) ==
    [q \in DOMAIN j |->
        IF q # writer /\ j[q].snap THEN [j[q] EXCEPT !.stale = TRUE] ELSE j[q]]

----------------------------------------------------------------------------
(* Credentials.  hash_password draws a fresh salt for every call; the      *)
(* stored hash is determined by the password and the salt.                 *)

HashPasswordUnsalted(password, salt) == [pw |-> password, salt |-> "s0"]
HashPassword(password, salt) == [pw |-> password, salt |-> salt]
SeedHash == HashPassword("pw0", "seed")

----------------------------------------------------------------------------
(* Constraints of the schema: users.email is unique, restaurant_managers   *)
(* is keyed by (restaurant_id, user_id) and references restaurants and     *)
(* users.                                                                  *)

UniqueEmailUnchecked(usrs, row) == TRUE
UniqueEmailOk(usrs, row) == \A u \in usrs : u.email # row.email

ManagerKeyOk(mgrs, row) == ManagerRows(mgrs, row.restaurant_id, row.user_id) = {}

ManagerRefsOk(rests, usrs, row) ==
    /\ \E r \in rests : r.id = row.restaurant_id
    /\ \E u \in usrs : u.id = row.user_id

ConstraintsOk(delta, tx) ==
    /\ \A u \in delta.users : UniqueEmailOk(users \cup tx.users, u)
    /\ \A m \in delta.managers :
          /\ ManagerKeyOk(managers \cup tx.managers, m)
          /\ ManagerRefsOk(restaurants, users \cup tx.users, m)

----------------------------------------------------------------------------
(* join_restaurant                                                         *)

(* SELECT ... FROM manager_invites WHERE restaurant_id = ? AND token = ?   *)
(*   AND expires_at > datetime('now')                                      *)
InviteLookup(invs, restaurant_id, token, t) ==
    {i \in invs : /\ i.restaurant_id = restaurant_id
                  /\ i.token = token
                  /\ SqlUnexpired(i.expires_at, t)}

(* the fresh user id (Uuid::new_v4)                                        *)
NewUserId(p) == "u_" \o p

(* INSERT INTO users (id, email, phone, password_hash)                     *)
JoinUserRow(p, email, password) ==
    [id |-> NewUserId(p), email |-> email, password_hash |-> HashPassword(password, p),
     by |-> p]

(* INSERT INTO restaurant_managers (restaurant_id, user_id, role,          *)
(*   can_manage_menu) VALUES (?, ?, 'manager', invite.can_manage_menu)     *)
JoinManagerRowWithInvitedRole(p, restaurant_id, user_id, invite) ==
    [restaurant_id |-> restaurant_id, user_id |-> user_id,
     role |-> IF invite.can_manage_menu THEN "manager" ELSE "super_admin",
     can_manage_menu |-> invite.can_manage_menu, by |-> p]
JoinManagerRow(p, restaurant_id, user_id, invite) ==
    [restaurant_id |-> restaurant_id, user_id |-> user_id, role |-> "manager",
     can_manage_menu |-> invite.can_manage_menu, by |-> p]

(* DELETE FROM manager_invites WHERE id = invite.id                        *)
InviteDeleteNothing(invite) == {}

InviteDelete(invite) == {invite.id}

(* `if let Err(e) = result { return ... }` after a statement: does an      *)
(* error of statement stmt end the request                                 *)
ManagerInsertErrorIgnored(stmt) == stmt # "insert_manager"

StatementErrorAborts(stmt) == TRUE

(* what a transaction dropped without commit leaves in the store           *)
DropKeepsWrites(tx) == tx

DropEffect(tx) == EmptyTx

(* the store after the changes `d` are committed                           *)
Committed(d) ==
    /\ users' = users \cup d.users
    /\ managers' = managers \cup d.managers
    /\ invites' = {i \in invites : i.id \notin d.del_invites}
    /\ UNCHANGED <<restaurants, tables, sections, items, orders, auth, reg, tab, contact, inv, reset_tokens, reset>>

Regrant(h, d) ==
    [h EXCEPT !.revoked = {x \in h.revoked :
        \A m \in d.managers : ~(x[1] = m.restaurant_id /\ x[2] = m.user_id)}]

(* the handler returns `status` from inside the transaction: tx is dropped *)
JoinAbort(p, status, step) ==
    LET d == DropEffect(join[p].tx)
    IN /\ Committed(d)
       /\ join' = [(IF d = EmptyTx THEN join ELSE Invalidate(join, p)) EXCEPT
                      ![p].pc = "done", ![p].status = status, ![p].failed = step,
                      ![p].tx = EmptyTx, ![p].snap = FALSE, ![p].locked = FALSE,
                      ![p].stale = FALSE]
       /\ hist' = [Regrant(hist, d) EXCEPT
                      !.failed = IF step \in {"insert_manager", "delete_invite", "commit"}
                                 THEN @ \cup {<<join[p].restaurant_id, join[p].token>>}
                                 ELSE @]
       /\ UNCHANGED <<now, create, ord, resp, auth, reg, tab, contact, inv, reset_tokens, reset>>

(* one INSERT / DELETE of the handler, executed on the transaction; delta  *)
(* is what it writes                                                       *)
JoinWrite(p, stmt, delta, nextpc, dbok) ==
    /\ dbok => OthersUnlocked(p)
    /\ IF dbok /\ ~join[p].stale /\ ConstraintsOk(delta, join[p].tx)
       THEN /\ join' = [join EXCEPT ![p].pc = nextpc, ![p].locked = TRUE,
                                    ![p].tx = TxMerge(@, delta)]
            /\ UNCHANGED <<store, now, create, ord, resp, hist, auth, reg, tab, contact, inv, reset_tokens, reset>>
       ELSE IF StatementErrorAborts(stmt)
       THEN JoinAbort(p, 500, stmt)
       ELSE /\ join' = [join EXCEPT ![p].pc = nextpc]
            /\ UNCHANGED <<store, now, create, ord, resp, hist, auth, reg, tab, contact, inv, reset_tokens, reset>>

(* the invite lookup and the email comparison, before the transaction *)
(* the bodies of the two 400 responses of the lookup step                  *)
InvalidOrExpired == "Invalid or expired invite token"
EmailMismatch == "Email does not match invite"

(* `if invite.email != req.email { return BadRequest }`                    *)
EmailAlwaysMatches(invite_email, email) == TRUE

EmailMatches(invite_email, email) == invite_email = email

join_restaurant_invite(p, restaurant_id, token, email) ==
    /\ join[p].pc = "idle"
    /\ LET found == InviteLookup(invites, restaurant_id, token, now)
           req == [IdleJoin EXCEPT !.restaurant_id = restaurant_id, !.token = token,
                                   !.email = email, !.at = now,
                                   !.prior = <<restaurant_id, token>> \in hist.redeemed,
                                   !.retry = <<restaurant_id, token>> \in hist.failed,
                                   !.before = [users |-> users, managers |-> managers,
                                               invites |-> invites]]
       IN IF found = {}
          THEN join' = [join EXCEPT ![p] = [req EXCEPT !.pc = "done", !.status = 400,
                                                       !.error = InvalidOrExpired]]
          ELSE \E invite \in found :
                 IF ~EmailMatches(invite.email, email)
                 THEN join' = [join EXCEPT ![p] = [req EXCEPT !.pc = "done", !.status = 400,
                                                              !.error = EmailMismatch,
                                                              !.invite = {invite}]]
                 ELSE join' = [join EXCEPT ![p] = [req EXCEPT !.pc = "user", !.invite = {invite}]]
    /\ UNCHANGED <<store, now, create, ord, resp, hist, auth, reg, tab, contact, inv, reset_tokens, reset>>

(* the user lookup inside the transaction and, for an existing user, the   *)
(* existing-manager check                                                  *)
join_restaurant_user(p, dbok) ==
    /\ join[p].pc = "user"
    /\ IF ~dbok THEN JoinAbort(p, 500, "user")
       ELSE LET existing_user == FindUserByEmail(users, join[p].email)
            IN IF existing_user = {}
               THEN /\ join' = [join EXCEPT ![p].pc = "insert_user", ![p].snap = TRUE,
                                            ![p].user_id = NewUserId(p)]
                    /\ UNCHANGED <<store, now, create, ord, resp, hist, auth, reg, tab, contact, inv, reset_tokens, reset>>
               ELSE \E user \in existing_user :
                      LET existing_manager ==
                            CountQuery(ManagerRows(managers, join[p].restaurant_id, user.id))
                      IN IF existing_manager # {}
                         THEN JoinAbort(p, 409, "existing_manager")
                         ELSE /\ join' = [join EXCEPT ![p].pc = "insert_manager",
                                                      ![p].snap = TRUE, ![p].user_id = user.id]
                              /\ UNCHANGED <<store, now, create, ord, resp, hist, auth, reg, tab, contact, inv, reset_tokens, reset>>

join_restaurant_insert_user(p, password, dbok) ==
    /\ join[p].pc = "insert_user"
    /\ JoinWrite(p, "insert_user",
                 [EmptyTx EXCEPT !.users = {JoinUserRow(p, join[p].email, password)}],
                 "insert_manager", dbok)

join_restaurant_insert_manager(p, dbok) ==
    /\ join[p].pc = "insert_manager"
    /\ \E invite \in join[p].invite :
         JoinWrite(p, "insert_manager",
                   [EmptyTx EXCEPT !.managers =
                       {JoinManagerRow(p, join[p].restaurant_id, join[p].user_id, invite)}],
                   "delete_invite", dbok)

join_restaurant_delete_invite(p, dbok) ==
    /\ join[p].pc = "delete_invite"
    /\ \E invite \in join[p].invite :
         JoinWrite(p, "delete_invite",
                   [EmptyTx EXCEPT !.del_invites = InviteDelete(invite)],
                   "commit", dbok)

join_restaurant_commit(p, dbok) ==
    /\ join[p].pc = "commit"
    /\ IF dbok
       THEN /\ Committed(join[p].tx)
            /\ join' = [Invalidate(join, p) EXCEPT ![p].pc = "respond", ![p].tx = EmptyTx,
                           ![p].snap = FALSE, ![p].locked = FALSE]
            /\ hist' = [Regrant(hist, join[p].tx) EXCEPT
                           !.redeemed = @ \cup {<<join[p].restaurant_id, join[p].token>>}]
            /\ UNCHANGED <<now, create, ord, resp, auth, reg, tab, contact, inv, reset_tokens, reset>>
       ELSE JoinAbort(p, 500, "commit")

(* after the commit: fetch the user row and issue the session token *)
join_restaurant_respond(p, dbok) ==
    /\ join[p].pc = "respond"
    /\ join' = [join EXCEPT ![p].pc = "done",
                   ![p].status = IF dbok /\ \E u \in users : u.id = join[p].user_id
                                 THEN 200 ELSE 500,
                   ![p].failed = IF dbok /\ \E u \in users : u.id = join[p].user_id
                                 THEN NoneId ELSE "respond"]
    /\ UNCHANGED <<store, now, create, ord, resp, hist, auth, reg, tab, contact, inv, reset_tokens, reset>>

join_restaurant_return(p) ==
    /\ join[p].pc = "done"
    /\ join' = [join EXCEPT ![p] = IdleJoin]
    /\ UNCHANGED <<store, now, create, ord, resp, hist, auth, reg, tab, contact, inv, reset_tokens, reset>>

----------------------------------------------------------------------------
(* create_restaurant, statement by statement: pool.begin(), the INSERT     *)
(* into restaurants and the INSERT into restaurant_managers on the         *)
(* transaction, tx.commit(), then the fetch of the new row on the pool.    *)

(* the fresh restaurant id (Uuid::new_v4)                                  *)
NewRestaurantId(p) == "r_" \o p

(* INSERT INTO restaurants (id, name, ...)                                 *)
CreateRestaurantRow(restaurant_id, name) == [id |-> restaurant_id, name |-> name]

(* INSERT INTO restaurant_managers (restaurant_id, user_id, role,          *)
(*   can_manage_menu) VALUES (?, ?, 'super_admin', TRUE)                   *)
CreatorManagerRow(restaurant_id, caller) ==
    [restaurant_id |-> restaurant_id, user_id |-> caller, role |-> "super_admin",
     can_manage_menu |-> TRUE, by |-> "create"]

(* `.execute(&mut *tx)`: the connection a statement of create_restaurant   *)
(* runs on, "tx" for the open transaction, "pool" for a connection of its  *)
(* own that commits the statement at once                                  *)
RestaurantInsertOnPool(stmt) == IF stmt = "insert_restaurant" THEN "pool" ELSE "tx"

CreateExecutesOn(stmt) == "tx"

(* the store after the changes d of a create_restaurant request are        *)
(* committed                                                               *)
CreateCommitted(d) ==
    /\ restaurants' = restaurants \cup d.restaurants
    /\ managers' = managers \cup d.managers
    /\ UNCHANGED <<users, invites, tables, sections, items, orders, auth, reg, tab, contact, inv, reset_tokens, reset>>

(* the handler returns 500 from inside the transaction: tx is dropped and  *)
(* with it what was executed on it                                         *)
CreateAbort(p, step) ==
    /\ create' = [create EXCEPT ![p].pc = "done", ![p].status = 500, ![p].failed = step,
                                ![p].tx = EmptyCreateTx, ![p].locked = FALSE]
    /\ UNCHANGED <<store, now, ord, join, resp, hist, auth, reg, tab, contact, inv, reset_tokens, reset>>

(* one INSERT of the handler; delta is what it writes *)
CreateWrite(p, stmt, delta, nextpc, dbok) ==
    /\ dbok => OthersUnlocked(p)
    /\ IF ~dbok
       THEN CreateAbort(p, stmt)
       ELSE IF CreateExecutesOn(stmt) = "pool"
       THEN /\ CreateCommitted(delta)
            /\ create' = [create EXCEPT ![p].pc = nextpc]
            /\ join' = Invalidate(join, NoneId)
            /\ UNCHANGED <<now, ord, resp, hist, auth, reg, tab, contact, inv, reset_tokens, reset>>
       ELSE /\ create' = [create EXCEPT ![p].pc = nextpc, ![p].locked = TRUE,
                             ![p].tx = [restaurants |-> @.restaurants \cup delta.restaurants,
                                        managers |-> @.managers \cup delta.managers]]
            /\ UNCHANGED <<store, now, ord, join, resp, hist, auth, reg, tab, contact, inv, reset_tokens, reset>>

(* the request arrives and pool.begin() opens the transaction *)
create_restaurant_begin(p, caller, name, dbok) ==
    /\ create[p].pc = "idle"
    /\ caller \in {u.id : u \in users}
    /\ create' = [create EXCEPT ![p] =
          IF dbok
          THEN [IdleCreate EXCEPT !.pc = "insert_restaurant", !.caller = caller,
                                  !.name = name, !.restaurant_id = NewRestaurantId(p)]
          ELSE [IdleCreate EXCEPT !.pc = "done", !.caller = caller, !.name = name,
                                  !.restaurant_id = NewRestaurantId(p),
                                  !.status = 500, !.failed = "begin"]]
    /\ UNCHANGED <<store, now, ord, join, resp, hist, auth, reg, tab, contact, inv, reset_tokens, reset>>

create_restaurant_insert_restaurant(p, dbok) ==
    /\ create[p].pc = "insert_restaurant"
    /\ CreateWrite(p, "insert_restaurant",
                   [EmptyCreateTx EXCEPT !.restaurants =
                       {CreateRestaurantRow(create[p].restaurant_id, create[p].name)}],
                   "insert_manager", dbok)

create_restaurant_insert_manager(p, dbok) ==
    /\ create[p].pc = "insert_manager"
    /\ CreateWrite(p, "insert_manager",
                   [EmptyCreateTx EXCEPT !.managers =
                       {CreatorManagerRow(create[p].restaurant_id, create[p].caller)}],
                   "commit", dbok)

create_restaurant_commit(p, dbok) ==
    /\ create[p].pc = "commit"
    /\ IF dbok
       THEN /\ CreateCommitted(create[p].tx)
            /\ create' = [create EXCEPT ![p].pc = "respond", ![p].tx = EmptyCreateTx,
                                        ![p].locked = FALSE]
            /\ join' = Invalidate(join, NoneId)
            /\ UNCHANGED <<now, ord, resp, hist, auth, reg, tab, contact, inv, reset_tokens, reset>>
       ELSE CreateAbort(p, "commit")

(* after the commit: fetch the restaurant row and answer 201 *)
create_restaurant_respond(p, dbok) ==
    /\ create[p].pc = "respond"
    /\ create' = [create EXCEPT ![p].pc = "done",
                     ![p].status = IF dbok /\ \E r \in restaurants : r.id = create[p].restaurant_id
                                   THEN 201 ELSE 500,
                     ![p].failed = IF dbok /\ \E r \in restaurants : r.id = create[p].restaurant_id
                                   THEN NoneId ELSE "respond"]
    /\ UNCHANGED <<store, now, ord, join, resp, hist, auth, reg, tab, contact, inv, reset_tokens, reset>>

----------------------------------------------------------------------------
(* create_order                                                            *)

IdleOrd ==
    [pc |-> "idle", table_code |-> NoneId, len |-> 0, items |-> <<>>, table_id |-> NoneId,
     restaurant_id |-> NoneId, idx |-> 0, order_items |-> <<>>, total_amount |-> 0,
     seen |-> <<>>, before |-> {}, status |-> 0, order_id |-> 0, order_status |-> NoneId]

(* History of a validation: what the store held for the named item when    *)
(* the line was validated (seen), and the orders that existed when the     *)
(* request arrived (before).                                               *)
LineObservation(line, restaurant_id) ==
    LET ms == {mi \in items : /\ mi.id = line.menu_item_id
                              /\ \E s \in sections : /\ s.id = mi.section_id
                                                     /\ s.restaurant_id = restaurant_id}
    IN [belongs |-> ms # {},
        available |-> \E mi \in ms : mi.available,
        price |-> IF ms = {} THEN 0 ELSE (CHOOSE mi \in ms : TRUE).price]

(* item_total = menu_item.price * item.quantity as f64                     *)
ItemTotalPriceOnly(price, quantity) == price

ItemTotal(price, quantity) == price * quantity

(* OrderItem { menu_item_id, quantity, price: menu_item.price, notes }     *)
MakeOrderItemWithoutNotes(line, menu_item) ==
    [menu_item_id |-> line.menu_item_id, quantity |-> line.quantity,
     price |-> menu_item.price, notes |-> NoneId]

MakeOrderItem(line, menu_item) ==
    [menu_item_id |-> line.menu_item_id, quantity |-> line.quantity,
     price |-> menu_item.price, notes |-> line.special_requests]

(* `if item.quantity <= 0 { return BadRequest }`                           *)
QuantityNeverRejected(quantity) == FALSE

QuantityRejected(quantity) == quantity <= 0

(* the INSERT names no status: the column's default is the initial status *)
DefaultOrderStatus == "pending"

(* the fresh order id (Uuid::new_v4)                                       *)
NewOrderId == Cardinality(orders) + 1

(* step 1: the table lookup by unique code.  len is the length of          *)
(* req.items; the lines themselves enter the model when the loop reads     *)
(* them (items holds the lines read so far).                               *)
create_order_table(p, code, len) ==
    /\ ord[p].pc = "idle"
    /\ LET found == FindTableByCode(tables, code)
       IN IF found = {}
          THEN ord' = [ord EXCEPT ![p] = [IdleOrd EXCEPT !.pc = "done", !.table_code = code,
                                                         !.len = len, !.status = 404,
                                                         !.before = {r.id : r \in orders}]]
          ELSE \E t \in found :
                 ord' = [ord EXCEPT ![p] = [IdleOrd EXCEPT
                            !.pc = IF len = 0 THEN "insert" ELSE "validate",
                            !.table_code = code, !.len = len, !.table_id = t.id,
                            !.restaurant_id = t.restaurant_id, !.idx = 1,
                            !.before = {r.id : r \in orders}]]
    /\ UNCHANGED <<store, now, create, join, resp, hist, auth, reg, tab, contact, inv, reset_tokens, reset>>

(* step 2, once per line: the body of `for item in &req.items`, line being *)
(* the next element of the list                                            *)
create_order_line(p, line) ==
    /\ ord[p].pc = "validate"
    /\ LET o == ord[p]
           found == FindOrderableItem(items, sections, line.menu_item_id, o.restaurant_id)
           obs == Append(o.seen, LineObservation(line, o.restaurant_id))
       IN IF found = {}
          THEN ord' = [ord EXCEPT ![p].pc = "done", ![p].status = 400, ![p].seen = obs,
                                  ![p].items = Append(o.items, line)]
          ELSE IF QuantityRejected(line.quantity)
          THEN ord' = [ord EXCEPT ![p].pc = "done", ![p].status = 400, ![p].seen = obs,
                                  ![p].items = Append(o.items, line)]
          ELSE \E mi \in found :
                 ord' = [ord EXCEPT
                    ![p].total_amount = o.total_amount + ItemTotal(mi.price, line.quantity),
                    ![p].order_items = Append(o.order_items, MakeOrderItem(line, mi)),
                    ![p].seen = obs,
                    ![p].items = Append(o.items, line),
                    ![p].idx = o.idx + 1,
                    ![p].pc = IF o.idx = o.len THEN "insert" ELSE "validate"]
    /\ UNCHANGED <<store, now, create, join, resp, hist, auth, reg, tab, contact, inv, reset_tokens, reset>>

(* How the menu_items rows of the validated lines differ, in the current   *)
(* state, from what the validation loop read.                              *)
MenuDrift(order_items) ==
    {kind \in {"deleted", "unavailable", "repriced"} :
        \E k \in 1..Len(order_items) :
            LET rows == {i \in items : i.id = order_items[k].menu_item_id}
            IN  \/ kind = "deleted" /\ rows = {}
                \/ kind = "unavailable" /\ \E i \in rows : ~i.available
                \/ kind = "repriced" /\ \E i \in rows : i.price # order_items[k].price}

(* serde_json::to_string(&order_items): the INSERT stores the lines as the *)
(* validation loop built them, without reading menu_items again            *)
InsertedItemsStillListed(order_items) ==
    SelectSeq(order_items,
              LAMBDA oi : \E i \in items : /\ i.id = oi.menu_item_id
                                           /\ i.available
                                           /\ i.price = oi.price)
InsertedItems(order_items) == order_items

(* step 3: the empty check and the single INSERT INTO orders; dbok is the  *)
(* outcome of the statement                                                *)
create_order_insert(p, dbok) ==
    /\ ord[p].pc = "insert"
    /\ LET o == ord[p]
       IN IF o.order_items = <<>>
          THEN /\ dbok
               /\ ord' = [ord EXCEPT ![p].pc = "done", ![p].status = 400]
               /\ UNCHANGED orders
          ELSE IF dbok
          THEN /\ orders' = orders \cup
                    {[id |-> NewOrderId, table_id |-> o.table_id,
                      items |-> InsertedItems(o.order_items),
                      total_amount |-> o.total_amount, status |-> DefaultOrderStatus,
                      created_at |-> now, by |-> p]}
               /\ ord' = [ord EXCEPT ![p].pc = "done", ![p].status = 201,
                                     ![p].order_id = NewOrderId,
                                     ![p].order_status = "pending"]
          ELSE /\ ord' = [ord EXCEPT ![p].pc = "done", ![p].status = 500]
               /\ UNCHANGED orders
    /\ UNCHANGED <<users, restaurants, managers, invites, tables, sections, items,
                   now, create, join, resp, hist, auth, reg, tab, contact, inv, reset_tokens, reset>>

----------------------------------------------------------------------------
(* Menu item writes (menu_handlers.rs).  Each handler looks the item up,   *)
(* checks can_manage_menu for the item's restaurant and issues one         *)
(* UPDATE / DELETE.                                                        *)

MenuWriteStatus(caller, item_id) ==
    LET rs == ItemRestaurant(items, sections, item_id)
    IN IF rs = {} THEN 404
       ELSE IF \E r \in rs : MenuPermissionCount(managers, r, caller) > 0 THEN 200
       ELSE 403

update_menu_item(caller, item_id, price) ==
    /\ caller \in {u.id : u \in users}
    /\ LET st == MenuWriteStatus(caller, item_id)
       IN /\ items' = IF st = 200
                      THEN {IF mi.id = item_id THEN [mi EXCEPT !.price = price] ELSE mi : mi \in items}
                      ELSE items
          /\ resp' = Response("update_menu_item", caller, NoneId, item_id, FALSE, st)
    /\ UNCHANGED <<users, restaurants, managers, invites, tables, sections, orders,
                   now, create, ord, join, hist, auth, reg, tab, contact, inv, reset_tokens, reset>>

toggle_menu_item_availability(caller, item_id, available) ==
    /\ caller \in {u.id : u \in users}
    /\ LET st == MenuWriteStatus(caller, item_id)
       IN /\ items' = IF st = 200
                      THEN {IF mi.id = item_id THEN [mi EXCEPT !.available = available] ELSE mi : mi \in items}
                      ELSE items
          /\ resp' = Response("toggle_menu_item_availability", caller, NoneId, item_id, available, st)
    /\ UNCHANGED <<users, restaurants, managers, invites, tables, sections, orders,
                   now, create, ord, join, hist, auth, reg, tab, contact, inv, reset_tokens, reset>>

delete_menu_item(caller, item_id) ==
    /\ caller \in {u.id : u \in users}
    /\ LET st == MenuWriteStatus(caller, item_id)
       IN /\ items' = IF st = 200 THEN {mi \in items : mi.id # item_id} ELSE items
          /\ resp' = Response("delete_menu_item", caller, NoneId, item_id, FALSE, st)
    /\ UNCHANGED <<users, restaurants, managers, invites, tables, sections, orders,
                   now, create, ord, join, hist, auth, reg, tab, contact, inv, reset_tokens, reset>>

----------------------------------------------------------------------------
(* Restaurant, manager and invite handlers (handlers.rs) and               *)
(* create_menu_section (menu_handlers.rs).  Each runs its statements on    *)
(* the pool, one after the other, and is one step of the model; a          *)
(* statement that writes waits for the database write lock.  The Err       *)
(* branches of their statements (500) are left out.                        *)

(* `match x { Ok(Some(_)) => ..., Ok(None) => ... }` on a fetch_optional   *)
(* result: Some when the result set has a row                              *)
IsSome(rows) == rows # {}

(* the first check of get_restaurant and list_managers                     *)
manager_check(restaurant_id, caller) ==
    CountQuery(ManagerRows(managers, restaurant_id, caller))

(* the first check of update_restaurant, delete_restaurant,                *)
(* invite_manager, remove_manager and update_manager_permissions           *)
super_admin_check(restaurant_id, caller) ==
    CountQuery(SuperAdminRows(managers, restaurant_id, caller))

(* ... FROM restaurant_managers rm JOIN users u ON rm.user_id = u.id       *)
(*   WHERE rm.restaurant_id = ? AND u.email = ?                            *)
ManagersByEmail(mgrs, usrs, restaurant_id, email) ==
    {m \in mgrs : /\ m.restaurant_id = restaurant_id
                  /\ \E u \in usrs : u.id = m.user_id /\ u.email = email}

(* ... FROM manager_invites WHERE restaurant_id = ? AND email = ?          *)
(*   AND expires_at > datetime('now')                                      *)
ActiveInvites(invs, restaurant_id, email, t) ==
    {i \in invs : /\ i.restaurant_id = restaurant_id
                  /\ i.email = email
                  /\ SqlUnexpired(i.expires_at, t)}

(* a step that changes the store waits for the write lock and outdates     *)
(* the snapshots of the open transactions                                  *)
PoolWrite(changes) ==
    /\ changes => NoWriteLock
    /\ join' = IF changes THEN Invalidate(join, NoneId) ELSE join

Registered(caller) == caller \in {u.id : u \in users}

(* create_restaurant as one step: its committed transaction and the 201   *)
(* (the statement-by-statement handler is create_restaurant_begin ...      *)
(* create_restaurant_respond above)                                        *)
create_restaurant(caller, name) ==
    /\ Registered(caller)
    /\ RestaurantB \notin {r.id : r \in restaurants} \cup hist.gone
    /\ PoolWrite(TRUE)
    /\ restaurants' = restaurants \cup {[id |-> RestaurantB, name |-> name]}
    /\ managers' = managers \cup
          {[restaurant_id |-> RestaurantB, user_id |-> caller, role |-> "super_admin",
            can_manage_menu |-> TRUE, by |-> "create"]}
    /\ resp' = Response("create_restaurant", caller, RestaurantB, NoneId, TRUE, 201)
    /\ UNCHANGED <<users, invites, tables, sections, items, orders, now, create, ord, hist, auth, reg, tab, contact, inv, reset_tokens, reset>>

get_restaurant(caller, restaurant_id) ==
    /\ Registered(caller)
    /\ LET status == IF ~IsSome(manager_check(restaurant_id, caller)) THEN 403
                     ELSE IF \E r \in restaurants : r.id = restaurant_id THEN 200
                     ELSE 404
       IN resp' = Response("get_restaurant", caller, restaurant_id, NoneId, FALSE, status)
    /\ UNCHANGED <<store, now, create, ord, join, hist, auth, reg, tab, contact, inv, reset_tokens, reset>>

list_managers(caller, restaurant_id) ==
    /\ Registered(caller)
    /\ LET status == IF ~IsSome(manager_check(restaurant_id, caller)) THEN 403 ELSE 200
       IN resp' = Response("list_managers", caller, restaurant_id, NoneId, FALSE, status)
    /\ UNCHANGED <<store, now, create, ord, join, hist, auth, reg, tab, contact, inv, reset_tokens, reset>>

(* name is the one optional field of the request: NoneId when absent       *)
update_restaurant(caller, restaurant_id, name) ==
    /\ Registered(caller)
    /\ LET hit == {r \in restaurants : r.id = restaurant_id}
           status == IF ~IsSome(super_admin_check(restaurant_id, caller)) THEN 403
                     ELSE IF name = NoneId THEN 400
                     ELSE IF hit = {} THEN 404
                     ELSE 200
       IN /\ PoolWrite(status = 200 /\ \E r \in hit : r.name # name)
          /\ restaurants' = IF status = 200
                            THEN {IF r.id = restaurant_id THEN [r EXCEPT !.name = name] ELSE r :
                                    r \in restaurants}
                            ELSE restaurants
          /\ resp' = Response("update_restaurant", caller, restaurant_id, name, FALSE, status)
    /\ UNCHANGED <<users, managers, invites, tables, sections, items, orders, now, create, ord, hist, auth, reg, tab, contact, inv, reset_tokens, reset>>

(* DELETE FROM restaurants WHERE id = ?, with the cascade to the rows that *)
(* reference the restaurant                                                *)
delete_restaurant(caller, restaurant_id) ==
    /\ Registered(caller)
    /\ LET hit == {r \in restaurants : r.id = restaurant_id}
           status == IF ~IsSome(super_admin_check(restaurant_id, caller)) THEN 403
                     ELSE IF hit = {} THEN 404
                     ELSE 204
           gone_sections == {s.id : s \in {x \in sections : x.restaurant_id = restaurant_id}}
       IN /\ PoolWrite(status = 204)
          /\ IF status = 204
             THEN /\ restaurants' = restaurants \ hit
                  /\ managers' = {m \in managers : m.restaurant_id # restaurant_id}
                  /\ invites' = {i \in invites : i.restaurant_id # restaurant_id}
                  /\ tables' = {t \in tables : t.restaurant_id # restaurant_id}
                  /\ sections' = {s \in sections : s.restaurant_id # restaurant_id}
                  /\ items' = {mi \in items : mi.section_id \notin gone_sections}
                  /\ orders' = {o \in orders : o.restaurant_id # restaurant_id}
                  /\ hist' = [hist EXCEPT !.gone = @ \cup {restaurant_id}]
             ELSE UNCHANGED <<restaurants, managers, invites, tables, sections, items,
                              orders, hist, auth, reg, tab, contact, inv, reset_tokens, reset>>
          /\ resp' = Response("delete_restaurant", caller, restaurant_id, NoneId, FALSE, status)
    /\ UNCHANGED <<users, now, create, ord, auth, reg, tab, contact, inv, reset_tokens, reset>>

(* the fresh invite id and token (Uuid::new_v4)                            *)
NewInviteId == "v2"
NewInviteToken == "k2"

InviteRow(restaurant_id, email, can_manage_menu, t) ==
    [id |-> NewInviteId, restaurant_id |-> restaurant_id, email |-> email,
     can_manage_menu |-> can_manage_menu, token |-> NewInviteToken,
     expires_at |-> InviteExpiry(t)]

invite_manager(caller, restaurant_id, email, can_manage_menu) ==
    /\ Registered(caller)
    /\ NewInviteId \notin {i.id : i \in invites}
    /\ LET existing_manager ==
               CountQuery(ManagersByEmail(managers, users, restaurant_id, email))
           existing_invite ==
               CountQuery(ActiveInvites(invites, restaurant_id, email, now))
           status == IF ~IsSome(super_admin_check(restaurant_id, caller)) THEN 403
                     ELSE IF IsSome(existing_manager) THEN 409
                     ELSE IF IsSome(existing_invite) THEN 409
                     ELSE 201
       IN /\ PoolWrite(status = 201)
          /\ invites' = IF status = 201
                        THEN invites \cup {InviteRow(restaurant_id, email, can_manage_menu, now)}
                        ELSE invites
          /\ resp' = Response("invite_manager", caller, restaurant_id, email,
                              can_manage_menu, status)
    /\ UNCHANGED <<users, restaurants, managers, tables, sections, items, orders,
                   now, create, ord, hist, auth, reg, tab, contact, inv, reset_tokens, reset>>

remove_manager(caller, restaurant_id, user_id) ==
    /\ Registered(caller)
    /\ LET hit == ManagerRows(managers, restaurant_id, user_id)
           status == IF ~IsSome(super_admin_check(restaurant_id, caller)) THEN 403
                     ELSE IF user_id = caller THEN 400
                     ELSE IF hit = {} THEN 404
                     ELSE 204
       IN /\ PoolWrite(status = 204)
          /\ managers' = IF status = 204 THEN managers \ hit ELSE managers
          /\ hist' = IF status = 204
                     THEN [hist EXCEPT !.revoked = @ \cup {<<restaurant_id, user_id, "member">>}]
                     ELSE hist
          /\ resp' = Response("remove_manager", caller, restaurant_id, user_id, FALSE, status)
    /\ UNCHANGED <<users, restaurants, invites, tables, sections, items, orders, now, create, ord, auth, reg, tab, contact, inv, reset_tokens, reset>>

update_manager_permissions(caller, restaurant_id, user_id, can_manage_menu) ==
    /\ Registered(caller)
    /\ LET hit == ManagerRows(managers, restaurant_id, user_id)
           status == IF ~IsSome(super_admin_check(restaurant_id, caller)) THEN 403
                     ELSE IF hit = {} THEN 404
                     ELSE 204
       IN /\ PoolWrite(status = 204 /\ \E m \in hit : m.can_manage_menu # can_manage_menu)
          /\ managers' = IF status = 204
                         THEN (managers \ hit) \cup
                              {[m EXCEPT !.can_manage_menu = can_manage_menu] : m \in hit}
                         ELSE managers
          /\ hist' = IF status # 204 THEN hist
                     ELSE IF can_manage_menu
                     THEN [hist EXCEPT !.revoked = @ \ {<<restaurant_id, user_id, "menu">>}]
                     ELSE [hist EXCEPT !.revoked = @ \cup {<<restaurant_id, user_id, "menu">>}]
          /\ resp' = Response("update_manager_permissions", caller, restaurant_id, user_id,
                              can_manage_menu, status)
    /\ UNCHANGED <<users, restaurants, invites, tables, sections, items, orders, now, create, ord, auth, reg, tab, contact, inv, reset_tokens, reset>>

(* the fresh section id (Uuid::new_v4)                                     *)
FreshSectionIds == {"s" \o ToString(k) : k \in 1..MaxSections} \ {s.id : s \in sections}
NewSectionId == CHOOSE s \in FreshSectionIds : TRUE

create_menu_section(caller, restaurant_id) ==
    /\ Registered(caller)
    /\ FreshSectionIds # {}
    /\ LET status == IF MenuPermissionCount(managers, restaurant_id, caller) > 0
                     THEN 201 ELSE 403
       IN /\ PoolWrite(status = 201)
          /\ sections' = IF status = 201
                         THEN sections \cup {[id |-> NewSectionId,
                                              restaurant_id |-> restaurant_id]}
                         ELSE sections
          /\ resp' = Response("create_menu_section", caller, restaurant_id, NoneId, FALSE, status)
    /\ UNCHANGED <<users, restaurants, managers, invites, tables, items, orders,
                   now, create, ord, hist, auth, reg, tab, contact, inv, reset_tokens, reset>>

----------------------------------------------------------------------------
(* Menu and table writes (menu_handlers.rs, table_handlers.rs).  Each      *)
(* handler reads the COUNT of the caller's rows with can_manage_menu =     *)
(* TRUE with fetch_one and goes on only when `row.count > 0`; the role     *)
(* column is not part of the query.                                        *)

(* SELECT restaurant_id FROM menu_sections WHERE id = ?                    *)
SectionRestaurant(secs, section_id) ==
    {ms.restaurant_id : ms \in {s \in secs : s.id = section_id}}

(* the fresh item and table ids (Uuid::new_v4)                             *)
NewItemIds == {"i1"}
NewTableIds == {"t1"}
FreshItemIds == NewItemIds \ {mi.id : mi \in items}
FreshTableIds == NewTableIds \ {t.id : t \in tables}

(* generate_unique_code, redrawn while the code is in use                  *)
GeneratedCodes == {"codeA", "codeN"}

create_menu_item(caller, section_id, price) ==
    /\ Registered(caller)
    /\ FreshItemIds # {}
    /\ LET rs == SectionRestaurant(sections, section_id)
           status == IF rs = {} THEN 404
                     ELSE IF \E r \in rs : MenuPermissionCount(managers, r, caller) > 0 THEN 201
                     ELSE 403
           item_id == CHOOSE i \in FreshItemIds : TRUE
       IN /\ PoolWrite(status = 201)
          /\ items' = IF status = 201
                      THEN items \cup {[id |-> item_id, section_id |-> section_id,
                                        price |-> price, available |-> TRUE,
                                        display_order |-> 1]}
                      ELSE items
          /\ resp' = Response("create_menu_item", caller, NoneId, section_id, FALSE, status)
    /\ UNCHANGED <<users, restaurants, managers, invites, tables, sections, orders,
                   now, create, ord, hist, auth, reg, tab, contact, inv, reset_tokens, reset>>

(* reorder_menu_items: every item is looked up (404), then the permission  *)
(* is checked for every restaurant found (403), then the display orders    *)
(* are written one UPDATE after the other                                  *)
ReorderStatus(caller, item_orders) ==
    IF item_orders = <<>> THEN 400
    ELSE IF \E k \in DOMAIN item_orders :
               ItemRestaurant(items, sections, item_orders[k].item_id) = {} THEN 404
    ELSE IF \E k \in DOMAIN item_orders :
               \E r \in ItemRestaurant(items, sections, item_orders[k].item_id) :
                   MenuPermissionCount(managers, r, caller) = 0 THEN 403
    ELSE 200

RECURSIVE ApplyItemOrders(_, _)
ApplyItemOrders(itms, item_orders) ==
    IF item_orders = <<>> THEN itms
    ELSE ApplyItemOrders(
            {IF mi.id = Head(item_orders).item_id
             THEN [mi EXCEPT !.display_order = Head(item_orders).display_order]
             ELSE mi : mi \in itms},
            Tail(item_orders))

reorder_menu_items(caller, item_orders) ==
    /\ Registered(caller)
    /\ LET status == ReorderStatus(caller, item_orders)
       IN /\ PoolWrite(status = 200)
          /\ items' = IF status = 200 THEN ApplyItemOrders(items, item_orders) ELSE items
          /\ resp' = Response("reorder_menu_items", caller, NoneId, item_orders, FALSE, status)
    /\ UNCHANGED <<users, restaurants, managers, invites, tables, sections, orders,
                   now, create, ord, hist, auth, reg, tab, contact, inv, reset_tokens, reset>>

(* reorder_menu_items when the failed-th UPDATE returns Err: the UPDATEs   *)
(* run one by one on the pool, each committing on its own, so those before *)
(* the failing one stay applied and the handler answers 500                *)
reorder_menu_items_failing(caller, item_orders, failed) ==
    /\ Registered(caller)
    /\ ReorderStatus(caller, item_orders) = 200
    /\ failed \in 1..Len(item_orders)
    /\ PoolWrite(failed > 1)
    /\ items' = ApplyItemOrders(items, SubSeq(item_orders, 1, failed - 1))
    /\ resp' = Response("reorder_menu_items", caller, NoneId, item_orders, FALSE, 500)
    /\ UNCHANGED <<users, restaurants, managers, invites, tables, sections, orders,
                   now, create, ord, hist, auth, reg, tab, contact, inv, reset_tokens, reset>>

create_table(caller, restaurant_id, code) ==
    /\ Registered(caller)
    /\ FreshTableIds # {}
    /\ code \notin {t.unique_code : t \in tables}
    /\ LET status == IF MenuPermissionCount(managers, restaurant_id, caller) > 0
                     THEN 201 ELSE 403
           table_id == CHOOSE t \in FreshTableIds : TRUE
       IN /\ PoolWrite(status = 201)
          /\ tables' = IF status = 201
                       THEN tables \cup {[id |-> table_id, restaurant_id |-> restaurant_id,
                                          name |-> "n1", unique_code |-> code]}
                       ELSE tables
          /\ resp' = Response("create_table", caller, restaurant_id, NoneId, FALSE, status)
    /\ UNCHANGED <<users, restaurants, managers, invites, sections, items, orders,
                   now, create, ord, hist, auth, reg, tab, contact, inv, reset_tokens, reset>>

(* the rows of `UPDATE / DELETE ... WHERE id = ?`                          *)
TableRowsById(tbls, restaurant_id, table_id) ==
    {t \in tbls : t.id = table_id}

(* the rows of `UPDATE / DELETE ... WHERE id = ? AND restaurant_id = ?`    *)
TableRows(tbls, restaurant_id, table_id) ==
    {t \in tbls : t.id = table_id /\ t.restaurant_id = restaurant_id}

update_table(caller, restaurant_id, table_id, name) ==
    /\ Registered(caller)
    /\ LET hit == TableRows(tables, restaurant_id, table_id)
           status == IF MenuPermissionCount(managers, restaurant_id, caller) = 0 THEN 403
                     ELSE IF name = NoneId THEN 400
                     ELSE IF hit = {} THEN 404
                     ELSE 200
       IN /\ PoolWrite(status = 200)
          /\ tables' = IF status = 200
                       THEN {IF t \in hit THEN [t EXCEPT !.name = name] ELSE t : t \in tables}
                       ELSE tables
          /\ resp' = Response("update_table", caller, restaurant_id, table_id, FALSE, status)
    /\ UNCHANGED <<users, restaurants, managers, invites, sections, items, orders,
                   now, create, ord, hist, auth, reg, tab, contact, inv, reset_tokens, reset>>

delete_table(caller, restaurant_id, table_id) ==
    /\ Registered(caller)
    /\ LET hit == TableRows(tables, restaurant_id, table_id)
           status == IF MenuPermissionCount(managers, restaurant_id, caller) = 0 THEN 403
                     ELSE IF hit = {} THEN 404
                     ELSE 200
       IN /\ PoolWrite(status = 200)
          /\ tables' = IF status = 200 THEN tables \ hit ELSE tables
          /\ resp' = Response("delete_table", caller, restaurant_id, table_id, FALSE, status)
    /\ UNCHANGED <<users, restaurants, managers, invites, sections, items, orders,
                   now, create, ord, hist, auth, reg, tab, contact, inv, reset_tokens, reset>>

(* refresh_table_code writing its first draw, without the loop that redraws *)
(* a code in use                                                           *)
refresh_table_code_first_draw(caller, restaurant_id, table_id, code) ==
    /\ Registered(caller)
    /\ LET hit == TableRows(tables, restaurant_id, table_id)
           status == IF MenuPermissionCount(managers, restaurant_id, caller) = 0 THEN 403
                     ELSE IF hit = {} THEN 404
                     ELSE 200
       IN /\ PoolWrite(status = 200)
          /\ tables' = IF status = 200
                       THEN {IF t \in hit THEN [t EXCEPT !.unique_code = code] ELSE t
                             : t \in tables}
                       ELSE tables
          /\ resp' = Response("refresh_table_code", caller, restaurant_id, table_id, FALSE, status)
    /\ UNCHANGED <<users, restaurants, managers, invites, sections, items, orders,
                   now, create, ord, hist, auth, reg, tab, contact, inv, reset_tokens, reset>>

refresh_table_code(caller, restaurant_id, table_id, code) ==
    /\ Registered(caller)
    /\ code \notin {t.unique_code : t \in tables}
    /\ LET hit == TableRows(tables, restaurant_id, table_id)
           status == IF MenuPermissionCount(managers, restaurant_id, caller) = 0 THEN 403
                     ELSE IF hit = {} THEN 404
                     ELSE 200
       IN /\ PoolWrite(status = 200)
          /\ tables' = IF status = 200
                       THEN {IF t \in hit THEN [t EXCEPT !.unique_code = code] ELSE t
                             : t \in tables}
                       ELSE tables
          /\ resp' = Response("refresh_table_code", caller, restaurant_id, table_id, FALSE, status)
    /\ UNCHANGED <<users, restaurants, managers, invites, sections, items, orders,
                   now, create, ord, hist, auth, reg, tab, contact, inv, reset_tokens, reset>>

------------------------------------------------------------

----------------------------------------------------------------------------
(* Order reads (order_handlers.rs).  get_order is public; the three list   *)
(* handlers read the COUNT of the caller's restaurant_managers rows with   *)
(* fetch_one (0 on a database error) and answer 403 when it is 0, before   *)
(* any order is read.                                                      *)

(* SELECT COUNT of rows ... WHERE restaurant_id = ? AND user_id = ?        *)
ManagerCountAlwaysOne(mgrs, restaurant_id, user_id) == 1

ManagerCount(mgrs, restaurant_id, user_id) ==
    Cardinality(ManagerRows(mgrs, restaurant_id, user_id))

(* OrderItemResponse: the stored line with the item's current name, or     *)
(* "Unknown Item" when the item is gone                                    *)
MenuItemNameUnchecked(item_id) == "name of " \o item_id

MenuItemName(item_id) ==
    IF \E mi \in items : mi.id = item_id THEN "name of " \o item_id ELSE "Unknown Item"

OrderItemResponseCurrentPrice(item) ==
    LET found == {mi \in items : mi.id = item.menu_item_id}
    IN [menu_item_id |-> item.menu_item_id,
        menu_item_name |-> IF found # {} THEN "name of " \o item.menu_item_id
                           ELSE "Unknown Item",
        quantity |-> item.quantity,
        price |-> IF found # {} THEN (CHOOSE mi \in found : TRUE).price ELSE item.price,
        special_requests |-> item.notes]

OrderItemResponse(item) ==
    [menu_item_id |-> item.menu_item_id,
     menu_item_name |-> MenuItemName(item.menu_item_id),
     quantity |-> item.quantity, price |-> item.price,
     special_requests |-> item.notes]

(* OrderResponse built from an order row                                   *)
OrderResponse(o) ==
    [id |-> o.id, table_id |-> o.table_id,
     items |-> [k \in DOMAIN o.items |-> OrderItemResponse(o.items[k])],
     total_amount |-> o.total_amount, status |-> o.status]

(* ... FROM orders o JOIN tables t ON o.table_id = t.id                    *)
(*     JOIN restaurants r ON t.restaurant_id = r.id WHERE o.id = ?         *)
GetOrderResponse(order_id) ==
    LET found == {o \in orders : /\ o.id = order_id
                                  /\ \E t \in tables : /\ t.id = o.table_id
                                                       /\ \E r \in restaurants :
                                                             r.id = t.restaurant_id}
    IN IF found = {}
       THEN ResponseData("get_order", NoneId, NoneId, order_id, 404, {})
       ELSE ResponseData("get_order", NoneId, NoneId, order_id, 200,
                         {OrderResponse(o) : o \in found})

get_order(order_id) ==
    /\ resp' = GetOrderResponse(order_id)
    /\ UNCHANGED <<store, now, create, ord, join, hist, auth, reg, tab, contact, inv, reset_tokens, reset>>

(* ... FROM orders o JOIN tables t ON o.table_id = t.id                    *)
RestaurantOrdersAnyRestaurant(restaurant_id) ==
    {o \in orders : \E t \in tables : t.id = o.table_id}

(* ... FROM orders o JOIN tables t ON o.table_id = t.id                    *)
(*     WHERE t.restaurant_id = ?                                           *)
RestaurantOrders(restaurant_id) ==
    {o \in orders : \E t \in tables : t.id = o.table_id /\ t.restaurant_id = restaurant_id}

list_restaurant_orders(caller, restaurant_id) ==
    /\ Registered(caller)
    /\ resp' = IF ManagerCount(managers, restaurant_id, caller) = 0
               THEN ResponseData("list_restaurant_orders", caller, restaurant_id, NoneId, 403, {})
               ELSE ResponseData("list_restaurant_orders", caller, restaurant_id, NoneId, 200,
                                 {OrderResponse(o) : o \in RestaurantOrders(restaurant_id)})
    /\ UNCHANGED <<store, now, create, ord, join, hist, auth, reg, tab, contact, inv, reset_tokens, reset>>

(* ... AND date(o.created_at) = date('now')                                *)
list_today_orders(caller, restaurant_id) ==
    /\ Registered(caller)
    /\ resp' = IF ManagerCount(managers, restaurant_id, caller) = 0
               THEN ResponseData("list_today_orders", caller, restaurant_id, NoneId, 403, {})
               ELSE ResponseData("list_today_orders", caller, restaurant_id, NoneId, 200,
                                 {OrderResponse(o) : o \in {x \in RestaurantOrders(restaurant_id) :
                                                               DayOf(x.created_at) = DayOf(now)}})
    /\ UNCHANGED <<store, now, create, ord, join, hist, auth, reg, tab, contact, inv, reset_tokens, reset>>

list_table_orders(caller, restaurant_id, table_id) ==
    /\ Registered(caller)
    /\ resp' = IF ManagerCount(managers, restaurant_id, caller) = 0
               THEN ResponseData("list_table_orders", caller, restaurant_id, table_id, 403, {})
               ELSE IF TableRows(tables, restaurant_id, table_id) = {}
               THEN ResponseData("list_table_orders", caller, restaurant_id, table_id, 404, {})
               ELSE ResponseData("list_table_orders", caller, restaurant_id, table_id, 200,
                                 {OrderResponse(o) : o \in {x \in orders : x.table_id = table_id}})
    /\ UNCHANGED <<store, now, create, ord, join, hist, auth, reg, tab, contact, inv, reset_tokens, reset>>

----------------------------------------------------------------------------
(* The contact form and its rate limiter (contact_handlers.rs).  contact   *)
(* holds the RateLimiter's map from client address to the instants of the  *)
(* calls it let pass (requests), the arguments its callers pass            *)
(* (max_requests, window), the monotonic clock in seconds, the client      *)
(* addresses found in the rows of contact_submissions (submissions), and   *)
(* the latest call with its outcome (last).  The                           *)
(* field passed is a history field: per address, how many calls were let   *)
(* pass at each instant, including those the limiter has forgotten.        *)

ContactMaxRequests == 5
ContactWindow == 3600

ClientAddresses == {"ip1", "ip2"}
LimiterInstants == {0, ContactWindow - 1, ContactWindow}
LimiterArguments ==
    {[max_requests |-> ContactMaxRequests, window |-> ContactWindow],
     [max_requests |-> 1, window |-> 1],
     [max_requests |-> 2, window |-> ContactWindow]}

NoContactCall == [op |-> NoneId, ip |-> NoneId, at |-> 0, ok |-> FALSE, status |-> 0]

IdleContact ==
    [requests |-> [ip \in ClientAddresses |-> <<>>],
     max_requests |-> ContactMaxRequests, window |-> ContactWindow, clock |-> 0,
     submissions |-> {},
     passed |-> [ip \in ClientAddresses |-> [t \in LimiterInstants |-> 0]],
     last |-> NoContactCall]

(* ip_requests.retain(|&time| now.duration_since(time) < window) *)
RetainAll(times, t, window) == times
Retain(times, t, window) == SelectSeq(times, LAMBDA time : t - time < window)

(* RateLimiter::check_rate_limit, under the mutex: the pruned entry of the *)
(* address and the result                                                  *)
CheckRateLimit(c, ip, max_requests, window) ==
    LET kept == Retain(c.requests[ip], c.clock, window)
        ok == Len(kept) < max_requests
    IN  [c EXCEPT !.requests[ip] = IF ok THEN Append(kept, c.clock) ELSE kept,
                  !.passed[ip][c.clock] = IF ok THEN @ + 1 ELSE @,
                  !.last = [op |-> "check_rate_limit", ip |-> ip, at |-> c.clock,
                            ok |-> ok, status |-> 0]]

(* every caller of one limiter passes the same arguments *)
check_rate_limit(ip) ==
    /\ contact' = CheckRateLimit(contact, ip, contact.max_requests, contact.window)
    /\ UNCHANGED <<store, now, ord, create, join, resp, hist, auth, reg, tab, inv, reset_tokens, reset>>

(* submit_contact_form: 429 when the limiter refuses, 400 when the form is *)
(* invalid, else INSERT INTO contact_submissions and 201 (500 when the     *)
(* store fails)                                                            *)
submit_contact_form(ip, valid, dbok) ==
    /\ contact.max_requests = ContactMaxRequests
    /\ contact.window = ContactWindow
    /\ LET c == CheckRateLimit(contact, ip, ContactMaxRequests, ContactWindow)
           status == IF ~c.last.ok THEN 429
                     ELSE IF ~valid THEN 400
                     ELSE IF dbok THEN 201 ELSE 500
       IN  contact' = [c EXCEPT !.last.op = "submit_contact_form",
                                !.last.status = status,
                                !.submissions =
                                    IF status = 201
                                    THEN @ \cup {[ip_address |-> ip]}
                                    ELSE @]
    /\ UNCHANGED <<store, now, ord, create, join, resp, hist, auth, reg, tab, inv, reset_tokens, reset>>

(* Instant::now() moves on *)
contact_tick ==
    /\ \E t \in LimiterInstants :
          /\ t > contact.clock
          /\ contact' = [contact EXCEPT !.clock = t]
    /\ UNCHANGED <<store, now, ord, create, join, resp, hist, auth, reg, tab, inv, reset_tokens, reset>>

----------------------------------------------------------------------------
(* create_table and refresh_table_code, statement by statement             *)
(* (table_handlers.rs).  Both check the permission, draw a random code and *)
(* re-draw it up to ten times while a table carries it, and then write the *)
(* row with a separate statement on the pool.  tab[p] is the request of    *)
(* process p; its field passed records that the drawn code was found free. *)

TableProcs == {"p1", "p2"}

IdleTab == [pc |-> "idle", op |-> NoneId, restaurant_id |-> NoneId, table_id |-> NoneId,
            code |-> NoneId, attempts |-> 0, passed |-> FALSE, status |-> 0,
            failed |-> NoneId]

(* `while attempts < 10` *)
MaxAttempts == 10

(* generate_unique_code(): eight random characters; two draws can agree    *)
DrawnCodes == {"codeA", "codeN"}

(* the tables.unique_code column is declared UNIQUE: an INSERT or UPDATE    *)
(* that would give a second row the same code fails                        *)
UniqueCodeUnchecked(tbls, row) == TRUE
UniqueCodeOk(tbls, row) ==
    \A t \in tbls : t.id # row.id => t.unique_code # row.unique_code

(* Uuid::new_v4() of the request *)
NewTableId(p) == "t_" \o p

(* the permission check and the first draw of the code *)
TableRequest(op, caller, restaurant_id, table_id, code, dbok) ==
    LET req == [IdleTab EXCEPT !.op = op, !.restaurant_id = restaurant_id,
                               !.table_id = table_id, !.code = code]
    IN  IF ~dbok
        THEN [req EXCEPT !.pc = "done", !.status = 500, !.failed = "permission"]
        ELSE IF MenuPermissionCount(managers, restaurant_id, caller) > 0
        THEN [req EXCEPT !.pc = "check"]
        ELSE [req EXCEPT !.pc = "done", !.status = 403]

create_table_request(p, caller, restaurant_id, code, dbok) ==
    /\ tab[p].pc = "idle"
    /\ tab' = [tab EXCEPT ![p] = TableRequest("create_table", caller, restaurant_id,
                                              NewTableId(p), code, dbok)]
    /\ UNCHANGED <<store, now, ord, create, join, resp, hist, auth, reg, contact, inv, reset_tokens, reset>>

refresh_table_code_request(p, caller, restaurant_id, table_id, code, dbok) ==
    /\ tab[p].pc = "idle"
    /\ tab' = [tab EXCEPT ![p] = TableRequest("refresh_table_code", caller, restaurant_id,
                                              table_id, code, dbok)]
    /\ UNCHANGED <<store, now, ord, create, join, resp, hist, auth, reg, contact, inv, reset_tokens, reset>>

(* one turn of the loop: SELECT COUNT ... FROM tables WHERE unique_code = ? *)
table_code_check(p, next_code, dbok) ==
    /\ tab[p].pc = "check"
    /\ tab' = [tab EXCEPT ![p] =
                  IF tab[p].attempts >= MaxAttempts
                  THEN [@ EXCEPT !.pc = "done", !.status = 500, !.failed = "attempts"]
                  ELSE IF ~dbok
                  THEN [@ EXCEPT !.pc = "done", !.status = 500, !.failed = "check"]
                  ELSE IF Cardinality({t \in tables : t.unique_code = tab[p].code}) = 0
                  THEN [@ EXCEPT !.pc = "write", !.passed = TRUE]
                  ELSE [@ EXCEPT !.code = next_code, !.attempts = @ + 1]]
    /\ UNCHANGED <<store, now, ord, create, join, resp, hist, auth, reg, contact, inv, reset_tokens, reset>>

(* INSERT INTO tables (id, restaurant_id, name, unique_code) *)
create_table_insert(p, dbok) ==
    /\ tab[p].pc = "write"
    /\ tab[p].op = "create_table"
    /\ dbok => NoWriteLock
    /\ LET row == [id |-> tab[p].table_id, restaurant_id |-> tab[p].restaurant_id,
                   name |-> "n1", unique_code |-> tab[p].code]
       IN  IF dbok /\ UniqueCodeOk(tables, row)
           THEN /\ tables' = tables \cup {row}
                /\ tab' = [tab EXCEPT ![p].pc = "respond"]
           ELSE /\ tab' = [tab EXCEPT ![p].pc = "done", ![p].status = 500,
                                      ![p].failed = "write"]
                /\ UNCHANGED tables
    /\ UNCHANGED <<users, restaurants, managers, invites, sections, items, orders,
                   now, ord, create, join, resp, hist, auth, reg, contact, inv, reset_tokens, reset>>

(* the fetch of the created row *)
create_table_respond(p, dbok) ==
    /\ tab[p].pc = "respond"
    /\ tab' = [tab EXCEPT ![p].pc = "done",
                          ![p].status = IF dbok THEN 201 ELSE 500,
                          ![p].failed = IF dbok THEN NoneId ELSE "respond"]
    /\ UNCHANGED <<store, now, ord, create, join, resp, hist, auth, reg, contact, inv, reset_tokens, reset>>

(* UPDATE tables SET unique_code = ? WHERE id = ? AND restaurant_id = ? *)
refresh_table_code_update(p, dbok) ==
    /\ tab[p].pc = "write"
    /\ tab[p].op = "refresh_table_code"
    /\ dbok => NoWriteLock
    /\ LET hit == TableRows(tables, tab[p].restaurant_id, tab[p].table_id)
           rows == {[t EXCEPT !.unique_code = tab[p].code] : t \in hit}
       IN  IF dbok /\ \A row \in rows : UniqueCodeOk(tables, row)
           THEN /\ tables' = (tables \ hit) \cup rows
                /\ tab' = [tab EXCEPT ![p].pc = "done",
                                      ![p].status = IF hit = {} THEN 404 ELSE 200]
           ELSE /\ tab' = [tab EXCEPT ![p].pc = "done", ![p].status = 500,
                                      ![p].failed = "write"]
                /\ UNCHANGED tables
    /\ UNCHANGED <<users, restaurants, managers, invites, sections, items, orders,
                   now, ord, create, join, resp, hist, auth, reg, contact, inv, reset_tokens, reset>>

----------------------------------------------------------------------------
(* invite_manager, statement by statement, for requests that run next to   *)
(* each other: the super_admin check, the existing-manager check, the      *)
(* existing-invite check and the INSERT are four statements on the pool.   *)
(* inv[p] is the request of process p; clear records that, when the        *)
(* request arrived, the caller was super_admin of the restaurant, no       *)
(* manager of it had the email and no unexpired invite existed for it.     *)

InviteProcs == {"i1", "i2"}

IdleInvite ==
    [pc |-> "idle", caller |-> NoneId, restaurant_id |-> NoneId, email |-> NoneId,
     can_manage_menu |-> FALSE, status |-> 0, clear |-> FALSE]

(* statement 1: the super_admin check *)
invite_manager_request(p, caller, restaurant_id, email, can_manage_menu, dbok) ==
    /\ inv[p].pc = "idle"
    /\ Registered(caller)
    /\ LET req == [IdleInvite EXCEPT
                      !.caller = caller, !.restaurant_id = restaurant_id, !.email = email,
                      !.can_manage_menu = can_manage_menu,
                      !.clear = /\ SuperAdminRows(managers, restaurant_id, caller) # {}
                                /\ ManagersByEmail(managers, users, restaurant_id, email) = {}
                                /\ \A i \in invites : ~(/\ i.restaurant_id = restaurant_id
                                                        /\ i.email = email
                                                        /\ i.expires_at > now)]
       IN inv' = [inv EXCEPT ![p] =
                     IF ~dbok THEN [req EXCEPT !.pc = "done", !.status = 500]
                     ELSE IF ~IsSome(super_admin_check(restaurant_id, caller))
                     THEN [req EXCEPT !.pc = "done", !.status = 403]
                     ELSE [req EXCEPT !.pc = "existing_manager"]]
    /\ UNCHANGED <<store, now, ord, create, join, resp, hist, auth, reg, tab, contact,
                   reset_tokens, reset>>

(* the next statement of the request: the existing-manager check, the      *)
(* existing-invite check, or the INSERT INTO manager_invites               *)
invite_manager_statement(p, dbok) ==
    /\ inv[p].pc \in {"existing_manager", "existing_invite", "insert"}
    /\ LET r == inv[p]
           existing_manager ==
               CountQuery(ManagersByEmail(managers, users, r.restaurant_id, r.email))
           existing_invite ==
               CountQuery(ActiveInvites(invites, r.restaurant_id, r.email, now))
           row == [InviteRow(r.restaurant_id, r.email, r.can_manage_menu, now) EXCEPT
                      !.id = "v_" \o p, !.token = "k_" \o p]
           writes == dbok /\ r.pc = "insert"
       IN /\ PoolWrite(writes)
          /\ invites' = IF writes THEN invites \cup {row} ELSE invites
          /\ inv' = [inv EXCEPT ![p] =
                IF ~dbok THEN [r EXCEPT !.pc = "done", !.status = 500]
                ELSE IF r.pc = "existing_manager"
                THEN IF IsSome(existing_manager)
                     THEN [r EXCEPT !.pc = "done", !.status = 409]
                     ELSE [r EXCEPT !.pc = "existing_invite"]
                ELSE IF r.pc = "existing_invite"
                THEN IF IsSome(existing_invite)
                     THEN [r EXCEPT !.pc = "done", !.status = 409]
                     ELSE [r EXCEPT !.pc = "insert"]
                ELSE [r EXCEPT !.pc = "done", !.status = 201]]
    /\ UNCHANGED <<users, restaurants, managers, tables, sections, items, orders,
                   now, ord, create, resp, hist, auth, reg, tab, contact, reset_tokens, reset>>

----------------------------------------------------------------------------
(* Password reset (email_handlers.rs).  reset_tokens is the table          *)
(* password_reset_tokens; used_at is the empty set while the column is     *)
(* NULL.  confirm_password_reset looks the token up on the pool, then      *)
(* opens a transaction for its two UPDATEs; reset[p] is the request of     *)
(* process p.  In these handlers the clock counts hours.                   *)

ResetProcs == {"x1", "x2"}
ResetTokenPool == {"t1", "t2"}

(* Utc::now() + Duration::hours(2) *)
ResetLifetime == 2

IdleReset ==
    [pc |-> "idle", token |-> NoneId, new_password |-> NoneId, user_id |-> NoneId,
     status |-> 0, locked |-> FALSE]

(* the write lock of the database is free for the transaction of p *)
ResetUnlocked(p) == NoWriteLock /\ \A q \in ResetProcs \ {p} : ~reset[q].locked

(* create_password_reset_token: a fresh token (Uuid::new_v4) for the user  *)
create_password_reset_token(user_id, dbok) ==
    /\ ResetTokenPool \ {r.token : r \in reset_tokens} # {}
    /\ dbok => ResetUnlocked(NoneId)
    /\ LET token == CHOOSE t \in ResetTokenPool \ {r.token : r \in reset_tokens} : TRUE
       IN reset_tokens' =
             IF dbok
             THEN reset_tokens \cup {[user_id |-> user_id, token |-> token,
                                      expires_at |-> now + ResetLifetime, used_at |-> {}]}
             ELSE reset_tokens
    /\ UNCHANGED <<store, now, ord, create, join, resp, hist, auth, reg, tab, contact,
                   inv, reset>>

(* SELECT * FROM password_reset_tokens                                     *)
(*   WHERE token = ? AND used_at IS NULL AND expires_at > ?                *)
UsableToken(rows, token, t) ==
    {r \in rows : r.token = token /\ r.used_at = {} /\ r.expires_at > t}

(* the lookup of the token, before the transaction *)
confirm_password_reset_lookup(p, token, new_password, dbok) ==
    /\ reset[p].pc = "idle"
    /\ LET found == UsableToken(reset_tokens, token, now)
           req == [IdleReset EXCEPT !.token = token, !.new_password = new_password]
       IN IF ~dbok
          THEN reset' = [reset EXCEPT ![p] = [req EXCEPT !.pc = "done", !.status = 500]]
          ELSE IF found = {}
          THEN reset' = [reset EXCEPT ![p] = [req EXCEPT !.pc = "done", !.status = 400]]
          ELSE \E token_record \in found :
                 reset' = [reset EXCEPT ![p] = [req EXCEPT !.pc = "update_user",
                                                          !.user_id = token_record.user_id]]
    /\ UNCHANGED <<store, now, ord, create, join, resp, hist, auth, reg, tab, contact,
                   inv, reset_tokens>>

(* pool.begin() and UPDATE users SET password_hash = ? WHERE id = ?: the   *)
(* statement takes the write lock; on Err the transaction is rolled back   *)
confirm_password_reset_update_user(p, dbok) ==
    /\ reset[p].pc = "update_user"
    /\ dbok => ResetUnlocked(p)
    /\ reset' = [reset EXCEPT ![p] =
                    IF dbok THEN [@ EXCEPT !.pc = "mark_used", !.locked = TRUE]
                    ELSE [@ EXCEPT !.pc = "done", !.status = 500]]
    /\ UNCHANGED <<store, now, ord, create, join, resp, hist, auth, reg, tab, contact,
                   inv, reset_tokens>>

(* UPDATE password_reset_tokens SET used_at = ? WHERE token = ? *)
confirm_password_reset_mark_used(p, dbok) ==
    /\ reset[p].pc = "mark_used"
    /\ reset' = [reset EXCEPT ![p] =
                    IF dbok THEN [@ EXCEPT !.pc = "commit"]
                    ELSE [@ EXCEPT !.pc = "done", !.status = 500, !.locked = FALSE]]
    /\ UNCHANGED <<store, now, ord, create, join, resp, hist, auth, reg, tab, contact,
                   inv, reset_tokens>>

(* tx.commit(): both UPDATEs take effect, and the handler answers 200 *)
confirm_password_reset_commit(p, dbok) ==
    /\ reset[p].pc = "commit"
    /\ IF dbok
       THEN /\ users' = {IF u.id = reset[p].user_id
                         THEN [u EXCEPT !.password_hash =
                                           HashPassword(reset[p].new_password, p)]
                         ELSE u : u \in users}
            /\ reset_tokens' = {IF r.token = reset[p].token
                                THEN [r EXCEPT !.used_at = {now}]
                                ELSE r : r \in reset_tokens}
            /\ reset' = [reset EXCEPT ![p].pc = "done", ![p].status = 200,
                                      ![p].locked = FALSE]
       ELSE /\ reset' = [reset EXCEPT ![p].pc = "done", ![p].status = 500,
                                      ![p].locked = FALSE]
            /\ UNCHANGED <<users, reset_tokens>>
    /\ UNCHANGED <<restaurants, managers, invites, tables, sections, items, orders,
                   now, ord, create, join, resp, hist, auth, reg, tab, contact, inv>>

(* the client of p has its answer; p serves the next request *)
confirm_password_reset_return(p) ==
    /\ reset[p].pc = "done"
    /\ reset' = [reset EXCEPT ![p] = IdleReset]
    /\ UNCHANGED <<store, now, ord, create, join, resp, hist, auth, reg, tab, contact,
                   inv, reset_tokens>>

----------------------------------------------------------------------------
(* register (handlers.rs): a lookup of the email, the INSERT of the user   *)
(* row and the fetch of the created row are three statements on the pool,  *)
(* each committing on its own.  reg[p] is the request of process p; its    *)
(* field existed records whether the email had a user row when the request *)
(* was made, failed the statement on which the store reported an error.    *)

RegProcs == {"r1", "r2"}

IdleReg == [pc |-> "idle", email |-> NoneId, user_id |-> NoneId, status |-> 0,
            existed |-> FALSE, failed |-> NoneId]

(* INSERT INTO users (id, email, phone, password_hash)                     *)
RegisterUserRow(p, email, password) ==
    [id |-> NewUserId(p), email |-> email, password_hash |-> HashPassword(password, p),
     by |-> p]

register_lookup(p, email, dbok) ==
    /\ reg[p].pc = "idle"
    /\ LET req == [IdleReg EXCEPT !.email = email,
                                  !.existed = \E u \in users : u.email = email]
       IN  reg' = [reg EXCEPT ![p] =
                      IF ~dbok THEN [req EXCEPT !.pc = "done", !.status = 500,
                                                !.failed = "lookup"]
                      ELSE IF FindUserByEmail(users, email) # {}
                      THEN [req EXCEPT !.pc = "done", !.status = 409]
                      ELSE [req EXCEPT !.pc = "insert"]]
    /\ UNCHANGED <<store, now, ord, create, join, resp, hist, auth, tab, contact, inv, reset_tokens, reset>>

register_insert(p, password, dbok) ==
    /\ reg[p].pc = "insert"
    /\ dbok => NoWriteLock
    /\ LET row == RegisterUserRow(p, reg[p].email, password)
       IN  IF dbok /\ UniqueEmailOk(users, row)
           THEN /\ users' = users \cup {row}
                /\ join' = Invalidate(join, NoneId)
                /\ reg' = [reg EXCEPT ![p].pc = "respond", ![p].user_id = row.id]
           ELSE /\ reg' = [reg EXCEPT ![p].pc = "done", ![p].status = 500,
                                       ![p].failed = "insert"]
                /\ UNCHANGED <<users, join, tab, contact, inv, reset_tokens, reset>>
    /\ UNCHANGED <<restaurants, managers, invites, tables, sections, items, orders,
                   now, ord, create, resp, hist, auth, tab, contact, inv, reset_tokens, reset>>

(* the fetch of the created row and generate_token *)
register_respond(p, dbok) ==
    /\ reg[p].pc = "respond"
    /\ reg' = [reg EXCEPT ![p].pc = "done",
                          ![p].status = IF dbok /\ \E u \in users : u.id = reg[p].user_id
                                        THEN 201 ELSE 500,
                          ![p].failed = IF dbok /\ \E u \in users : u.id = reg[p].user_id
                                        THEN NoneId ELSE "respond"]
    /\ UNCHANGED <<store, now, ord, create, join, resp, hist, auth, tab, contact, inv, reset_tokens, reset>>

----------------------------------------------------------------------------
(* Authentication (auth.rs): JSON web tokens and password hashes.  auth    *)
(* holds the wall clock in seconds (clock), the leeway of the token        *)
(* library's default validation, the token last produced (token) with the  *)
(* call that issued it (issued), the hash_password calls made so far       *)
(* (hashed, with the number of salts drawn), and the outcome of the latest *)
(* validate_token or verify_password call (last).                          *)

SecondsPerHour == 3600

(* Validation::default() of jsonwebtoken: exp is validated with a leeway,  *)
(* 60 seconds since release 8 of the library and 0 before it               *)
DefaultLeeway == 60
Leeways == {0, DefaultLeeway}

Secrets == {"k1", "k2"}
JwtManagers == [secret : Secrets, expiration_hours : {0, 1}]
AuthUsers == {[id |-> "u1", email |-> "e1"], [id |-> "u2", email |-> "e2"]}
AuthInstants == {0, DefaultLeeway, DefaultLeeway + 1, SecondsPerHour,
                 SecondsPerHour + DefaultLeeway, SecondsPerHour + DefaultLeeway + 1}

NoClaims == [sub |-> NoneId, email |-> NoneId, exp |-> 0, iat |-> 0]

(* the HMAC of the header and payload under a secret *)
Sign(secret, claims) == [key |-> secret, over |-> claims]

(* encode(&Header::default(), &claims, &EncodingKey::from_secret(secret)):  *)
(* three segments, header.payload.signature                                *)
Encode(secret, claims) == [parts |-> 3, claims |-> claims, sig |-> Sign(secret, claims)]

(* a string that is not three base64 segments *)
MalformedToken == [parts |-> 1, claims |-> NoClaims, sig |-> Sign(NoneId, NoClaims)]

NoToken == [parts |-> 0, claims |-> NoClaims, sig |-> Sign(NoneId, NoClaims)]
NoIssue == [user |-> [id |-> NoneId, email |-> NoneId], secret |-> NoneId,
            expiration_hours |-> 0, at |-> 0, token |-> NoToken]
MalformedHash == [pw |-> NoneId, salt |-> NoneId]
NoLast == [op |-> NoneId, secret |-> NoneId, token |-> NoToken, at |-> 0, ok |-> FALSE,
           claims |-> NoClaims, password |-> NoneId, hash |-> MalformedHash, result |-> NoneId]

IdleAuth == [clock |-> 0, leeway |-> DefaultLeeway, token |-> NoToken, issued |-> NoIssue,
             hashed |-> <<>>, last |-> NoLast]

(* JwtManager::generate_token: exp = now + expiration_hours, iat = now *)
TokenExpiresAtIssue(manager, user, clock) ==
    Encode(manager.secret, [sub |-> user.id, email |-> user.email, exp |-> clock, iat |-> clock])
TokenFor(manager, user, clock) ==
    Encode(manager.secret,
           [sub |-> user.id, email |-> user.email,
            exp |-> clock + manager.expiration_hours * SecondsPerHour, iat |-> clock])

generate_token(manager, user) ==
    /\ auth' = [auth EXCEPT !.token = TokenFor(manager, user, auth.clock),
                            !.issued = [user |-> user, secret |-> manager.secret,
                                        expiration_hours |-> manager.expiration_hours,
                                        at |-> auth.clock,
                                        token |-> TokenFor(manager, user, auth.clock)]]
    /\ UNCHANGED <<store, now, ord, create, join, resp, hist, reg, tab, contact, inv, reset_tokens, reset>>

(* a client that alters the payload of the token it holds and keeps the    *)
(* signature: here it moves exp forward by an hour                         *)
tamper_token ==
    /\ auth.token.parts = 3
    /\ auth.token.claims.exp <= SecondsPerHour
    /\ auth' = [auth EXCEPT !.token.claims.exp = @ + SecondsPerHour]
    /\ UNCHANGED <<store, now, ord, create, join, resp, hist, reg, tab, contact, inv, reset_tokens, reset>>

(* a client that presents a string that is no token *)
present_malformed ==
    /\ auth' = [auth EXCEPT !.token = MalformedToken]
    /\ UNCHANGED <<store, now, ord, create, join, resp, hist, reg, tab, contact, inv, reset_tokens, reset>>

(* decode::<Claims>(token, &DecodingKey::from_secret(secret),              *)
(*                  &Validation::default()): the segments are split, the  *)
(* signature is recomputed over header and payload, then exp is validated: *)
(* the token is expired when exp < now - leeway                            *)
SignatureValid(secret, token) == token.sig = Sign(secret, token.claims)

Decode(secret, token, clock, leeway) ==
    IF token.parts # 3 THEN [ok |-> FALSE, claims |-> NoClaims]
    ELSE IF ~SignatureValid(secret, token) THEN [ok |-> FALSE, claims |-> NoClaims]
    ELSE IF token.claims.exp < clock - leeway THEN [ok |-> FALSE, claims |-> NoClaims]
    ELSE [ok |-> TRUE, claims |-> token.claims]

(* JwtManager::validate_token *)
validate_token(manager) ==
    /\ auth.token # NoToken
    /\ LET d == Decode(manager.secret, auth.token, auth.clock, auth.leeway)
       IN  auth' = [auth EXCEPT !.last = [NoLast EXCEPT !.op = "validate_token",
                                                        !.secret = manager.secret,
                                                        !.token = auth.token,
                                                        !.at = auth.clock,
                                                        !.ok = d.ok,
                                                        !.claims = d.claims]]
    /\ UNCHANGED <<store, now, ord, create, join, resp, hist, reg, tab, contact, inv, reset_tokens, reset>>

(* the wall clock moves on to a later instant *)
auth_tick ==
    /\ \E t \in AuthInstants :
          /\ t > auth.clock
          /\ auth' = [auth EXCEPT !.clock = t]
    /\ UNCHANGED <<store, now, ord, create, join, resp, hist, reg, tab, contact, inv, reset_tokens, reset>>

(* SaltString::generate(&mut OsRng): the k-th draw of the generator; the   *)
(* draws of a cryptographic generator are pairwise different               *)
OsRng == <<"s1", "s2", "s3">>
HashInputs == {"pw1", "pw2", "pw3"}

(* PasswordHasher::hash_password *)

hash_password(password) ==
    /\ Len(auth.hashed) < Len(OsRng)
    /\ LET salt == OsRng[Len(auth.hashed) + 1]
       IN  auth' = [auth EXCEPT !.hashed = Append(@, [password |-> password,
                                                      hash |-> HashPassword(password, salt)])]
    /\ UNCHANGED <<store, now, ord, create, join, resp, hist, reg, tab, contact, inv, reset_tokens, reset>>

(* PasswordHasher::verify_password: PasswordHash::new(hash)? fails on a    *)
(* string that is no PHC hash; otherwise the password is hashed with the   *)
(* salt and parameters of the stored hash and the outputs are compared     *)
VerifyPassword(password, hash) ==
    IF hash.salt = NoneId THEN "err"
    ELSE IF HashPassword(password, hash.salt) = hash THEN "true"
    ELSE "false"

verify_password(password, hash) ==
    /\ auth' = [auth EXCEPT !.last = [NoLast EXCEPT !.op = "verify_password",
                                                    !.password = password,
                                                    !.hash = hash,
                                                    !.result = VerifyPassword(password, hash)]]
    /\ UNCHANGED <<store, now, ord, create, join, resp, hist, reg, tab, contact, inv, reset_tokens, reset>>

----------------------------------------------------------------------------
(* The routes of create_app (lib.rs) and the bearer middleware of the /api *)
(* scope.  The client presents the token it holds (auth.token; NoToken     *)
(* when the request carries no Authorization header).                      *)

(* web::scope("/auth") *)
AuthRoutes == {"register", "login"}

(* web::scope("/api").wrap(auth_middleware) *)
ApiRoutes ==
    {"protected_test", "create_restaurant", "get_restaurant", "update_restaurant",
     "delete_restaurant", "invite_manager", "list_managers", "remove_manager",
     "update_manager_permissions", "create_menu_section", "list_menu_sections",
     "get_restaurant_menu", "create_menu_item", "update_menu_item", "delete_menu_item",
     "toggle_menu_item_availability", "reorder_menu_items", "create_table", "list_tables",
     "update_table", "delete_table", "refresh_table_code", "get_table_qr_url",
     "generate_single_qr_code", "generate_bulk_qr_codes", "generate_print_sheet",
     "list_restaurant_orders", "list_today_orders", "list_table_orders"}

(* the routes registered on the App itself, outside every scope *)
RootRoutes == {"health", "join_restaurant", "get_public_menu", "create_order", "get_order"}

(* app_data(web::Data::new(jwt_manager)): the manager of the server *)
ServerManager == [secret |-> "k1", expiration_hours |-> 1]

(* a client that sends no Authorization header *)
drop_token ==
    /\ auth.token # NoToken
    /\ auth' = [auth EXCEPT !.token = NoToken]
    /\ UNCHANGED <<store, now, ord, create, join, resp, hist, reg, tab, contact, inv, reset_tokens, reset>>

(* jwt_validator: BearerAuth extracts the credentials (no header, no       *)
(* credentials: the middleware answers 401 itself), validate_token decides *)
(* and the claims are put into the request extensions                      *)
JwtValidatorAcceptsAll(token) == [ok |-> TRUE, claims |-> token.claims]
JwtValidator(token) ==
    IF token = NoToken THEN [ok |-> FALSE, claims |-> NoClaims]
    ELSE Decode(ServerManager.secret, token, auth.clock, auth.leeway)

(* AuthenticationError::from(config): 401, the handler is not called *)
Unauthorized(route) ==
    /\ resp' = Response(route, NoneId, NoneId, NoneId, FALSE, 401)
    /\ UNCHANGED <<store, now, ord, create, join, hist, auth, reg, tab, contact, inv, reset_tokens, reset>>

(* DELETE /api/restaurants/{id}/managers/{user_id} *)
api_remove_manager(restaurant_id, user_id) ==
    LET v == JwtValidator(auth.token)
    IN IF v.ok THEN remove_manager(v.claims.sub, restaurant_id, user_id)
       ELSE Unauthorized("remove_manager")

(* PUT /api/items/{id} *)
api_update_menu_item(item_id, price) ==
    LET v == JwtValidator(auth.token)
    IN IF v.ok THEN update_menu_item(v.claims.sub, item_id, price)
       ELSE Unauthorized("update_menu_item")

(* DELETE /api/restaurants/{id}/tables/{table_id} *)
api_delete_table(restaurant_id, table_id) ==
    LET v == JwtValidator(auth.token)
    IN IF v.ok THEN delete_table(v.claims.sub, restaurant_id, table_id)
       ELSE Unauthorized("delete_table")

(* GET /api/restaurants/{id}/orders *)
api_list_restaurant_orders(restaurant_id) ==
    LET v == JwtValidator(auth.token)
    IN IF v.ok THEN list_restaurant_orders(v.claims.sub, restaurant_id)
       ELSE Unauthorized("list_restaurant_orders")

(* GET /health: no scope, no middleware, no statement on the pool *)
health ==
    /\ resp' = Response("health", NoneId, NoneId, NoneId, FALSE, 200)
    /\ UNCHANGED <<store, now, ord, create, join, hist, auth, reg, tab, contact, inv, reset_tokens, reset>>

----------------------------------------------------------------------------
(* The order pipeline racing with menu writes: one create_order request   *)
(* per process of OrdProcs, next to the menu item handlers.                *)
(* The menu writes are those of the super_admin u1 on the two stored      *)
(* items: a denied write or a write to an id without row leaves the store  *)
(* as it is (those outcomes are exercised under SpecMenu).                 *)

InitOrder ==
    /\ users = {[id |-> "u1", email |-> "e1", password_hash |-> SeedHash, by |-> "seed"],
                [id |-> "u3", email |-> "e3", password_hash |-> SeedHash, by |-> "seed"]}
    /\ restaurants = {[id |-> RestaurantA, name |-> "n0"], [id |-> RestaurantB, name |-> "n0"]}
    /\ managers = {[restaurant_id |-> RestaurantA, user_id |-> "u1", role |-> "super_admin",
                    can_manage_menu |-> TRUE, by |-> "seed"],
                   [restaurant_id |-> RestaurantB, user_id |-> "u1", role |-> "super_admin",
                    can_manage_menu |-> TRUE, by |-> "seed"],
                   [restaurant_id |-> RestaurantA, user_id |-> "u3", role |-> "manager",
                    can_manage_menu |-> FALSE, by |-> "seed"]}
    /\ invites = {}
    /\ tables = {[id |-> "tA", restaurant_id |-> RestaurantA, name |-> "n0",
                 unique_code |-> "codeA"]}
    /\ sections = {[id |-> "sA", restaurant_id |-> RestaurantA],
                   [id |-> "sB", restaurant_id |-> RestaurantB]}
    /\ items = {[id |-> "iA", section_id |-> "sA", price |-> 1, available |-> TRUE,
                 display_order |-> 1],
                [id |-> "iB", section_id |-> "sB", price |-> 1, available |-> TRUE,
                 display_order |-> 1]}
    /\ orders = {}
    /\ now = 0
    /\ inv = [p \in InviteProcs |-> IdleInvite]
    /\ reset_tokens = {}
    /\ reset = [p \in ResetProcs |-> IdleReset]
    /\ contact = IdleContact
    /\ tab = [p \in TableProcs |-> IdleTab]
    /\ reg = [p \in RegProcs |-> IdleReg]
    /\ auth = IdleAuth
    /\ ord = [p \in OrdProcs |-> IdleOrd]
    /\ create = [p \in CreateProcs |-> IdleCreate]
    /\ join = [p \in JoinProcs |-> IdleJoin]
    /\ resp = Untracked
    /\ hist = NoHist

NextOrder ==
    \/ \E p \in OrdProcs, code \in TableCodes, len \in 0..MaxLines :
          create_order_table(p, code, len)
    \/ \E p \in OrdProcs, line \in RequestLines : create_order_line(p, line)
    \/ \E p \in OrdProcs, dbok \in BOOLEAN : create_order_insert(p, dbok)
    \/ \E c \in {"u1"}, i \in {"iA", "iB"}, pr \in Prices : update_menu_item(c, i, pr)
    \/ \E c \in {"u1"}, i \in {"iA", "iB"}, a \in BOOLEAN : toggle_menu_item_availability(c, i, a)
    \/ \E c \in {"u1"}, i \in {"iA", "iB"} : delete_menu_item(c, i)

SpecOrder == InitOrder /\ [][NextOrder]_vars

----------------------------------------------------------------------------
(* Invite redemption: two concurrent join_restaurant requests and the      *)
(* clock.  The store starts with one restaurant, its super_admin, a        *)
(* registered user without any grant, and one invite issued for either an  *)
(* email without account ("e2") or the registered user's email ("e4").     *)

InviteEmails == {"e2", "e4"}
InviteTokens == {"k1", "kX"}
InviteExpiries == {0, TicksPerDay}
Passwords == {"pw1"}

InitJoin ==
    /\ users = {[id |-> "u1", email |-> "e1", password_hash |-> SeedHash, by |-> "seed"],
                [id |-> "u4", email |-> "e4", password_hash |-> SeedHash, by |-> "seed"]}
    /\ restaurants = {[id |-> RestaurantA, name |-> "n0"]}
    /\ managers = {[restaurant_id |-> RestaurantA, user_id |-> "u1", role |-> "super_admin",
                    can_manage_menu |-> TRUE, by |-> "seed"]}
    /\ \E e \in InviteEmails, c \in BOOLEAN, x \in InviteExpiries :
          invites = {[id |-> "v1", restaurant_id |-> RestaurantA, email |-> e,
                      can_manage_menu |-> c, token |-> "k1", expires_at |-> x]}
    /\ tables = {}
    /\ sections = {}
    /\ items = {}
    /\ orders = {}
    /\ now = 0
    /\ inv = [p \in InviteProcs |-> IdleInvite]
    /\ reset_tokens = {}
    /\ reset = [p \in ResetProcs |-> IdleReset]
    /\ contact = IdleContact
    /\ tab = [p \in TableProcs |-> IdleTab]
    /\ reg = [p \in RegProcs |-> IdleReg]
    /\ auth = IdleAuth
    /\ ord = [p \in OrdProcs |-> IdleOrd]
    /\ create = [p \in CreateProcs |-> IdleCreate]
    /\ join = [p \in JoinProcs |-> IdleJoin]
    /\ resp = Untracked
    /\ hist = NoHist

NextJoin ==
    \/ tick
    \/ \E p \in JoinProcs, t \in InviteTokens, e \in InviteEmails :
          join_restaurant_invite(p, RestaurantA, t, e)
    \/ \E p \in JoinProcs, dbok \in BOOLEAN : join_restaurant_user(p, dbok)
    \/ \E p \in JoinProcs, pw \in Passwords, dbok \in BOOLEAN :
          join_restaurant_insert_user(p, pw, dbok)
    \/ \E p \in JoinProcs, dbok \in BOOLEAN : join_restaurant_insert_manager(p, dbok)
    \/ \E p \in JoinProcs, dbok \in BOOLEAN : join_restaurant_delete_invite(p, dbok)
    \/ \E p \in JoinProcs, dbok \in BOOLEAN : join_restaurant_commit(p, dbok)
    \/ \E p \in JoinProcs, dbok \in BOOLEAN : join_restaurant_respond(p, dbok)
    \/ \E p \in JoinProcs : join_restaurant_return(p)

SpecJoin == InitJoin /\ [][NextJoin]_vars

----------------------------------------------------------------------------
(* Restaurant administration: the handlers above called by any registered  *)
(* user on either restaurant.  The store starts with                       *)
(* restaurant rA, its super_admin u1, a plain manager u3 with the menu     *)
(* capability (a non-member of every other restaurant), and one invite     *)
(* for "e2".                                                               *)

AdminRestaurants == {RestaurantA, RestaurantB}
AdminEmails == {"e2", "e3", "e5"}
AdminTargets == {"u1", "u3"}
AdminNames == {"n1", NoneId}

InitAdmin ==
    /\ users = {[id |-> "u1", email |-> "e1", password_hash |-> SeedHash, by |-> "seed"],
                [id |-> "u3", email |-> "e3", password_hash |-> SeedHash, by |-> "seed"]}
    /\ restaurants = {[id |-> RestaurantA, name |-> "n0"]}
    /\ managers = {[restaurant_id |-> RestaurantA, user_id |-> "u1", role |-> "super_admin",
                    can_manage_menu |-> TRUE, by |-> "seed"],
                   [restaurant_id |-> RestaurantA, user_id |-> "u3", role |-> "manager",
                    can_manage_menu |-> TRUE, by |-> "seed"]}
    /\ invites = {[id |-> "v1", restaurant_id |-> RestaurantA, email |-> "e2",
                   can_manage_menu |-> TRUE, token |-> "k1", expires_at |-> TicksPerDay]}
    /\ tables = {}
    /\ sections = {}
    /\ items = {}
    /\ orders = {}
    /\ now = 0
    /\ inv = [p \in InviteProcs |-> IdleInvite]
    /\ reset_tokens = {}
    /\ reset = [p \in ResetProcs |-> IdleReset]
    /\ contact = IdleContact
    /\ tab = [p \in TableProcs |-> IdleTab]
    /\ reg = [p \in RegProcs |-> IdleReg]
    /\ auth = IdleAuth
    /\ ord = [p \in OrdProcs |-> IdleOrd]
    /\ create = [p \in CreateProcs |-> IdleCreate]
    /\ join = [p \in JoinProcs |-> IdleJoin]
    /\ resp = NoResp
    /\ hist = NoHist

NextAdmin ==
    \/ \E c \in {u.id : u \in users}, n \in AdminNames \ {NoneId} : create_restaurant(c, n)
    \/ \E c \in {u.id : u \in users}, r \in AdminRestaurants : get_restaurant(c, r)
    \/ \E c \in {u.id : u \in users}, r \in AdminRestaurants : list_managers(c, r)
    \/ \E c \in {u.id : u \in users}, r \in AdminRestaurants, n \in AdminNames :
          update_restaurant(c, r, n)
    \/ \E c \in {u.id : u \in users}, r \in AdminRestaurants : delete_restaurant(c, r)
    \/ \E c \in {u.id : u \in users}, r \in AdminRestaurants, e \in AdminEmails, m \in BOOLEAN :
          invite_manager(c, r, e, m)
    \/ \E c \in {u.id : u \in users}, r \in AdminRestaurants, t \in AdminTargets :
          remove_manager(c, r, t)
    \/ \E c \in {u.id : u \in users}, r \in AdminRestaurants, t \in AdminTargets, m \in BOOLEAN :
          update_manager_permissions(c, r, t, m)
    \/ \E c \in {u.id : u \in users}, r \in AdminRestaurants : create_menu_section(c, r)

SpecAdmin == InitAdmin /\ [][NextAdmin]_vars

----------------------------------------------------------------------------
(* Restaurant creation: two concurrent create_restaurant requests by       *)
(* registered users, statement by statement, with store errors.            *)

CreateCallers == {"u1", "u3"}
CreateNames == {"n1"}

InitCreate ==
    /\ users = {[id |-> "u1", email |-> "e1", password_hash |-> SeedHash, by |-> "seed"],
                [id |-> "u3", email |-> "e3", password_hash |-> SeedHash, by |-> "seed"]}
    /\ restaurants = {[id |-> RestaurantA, name |-> "n0"]}
    /\ managers = {[restaurant_id |-> RestaurantA, user_id |-> "u1", role |-> "super_admin",
                    can_manage_menu |-> TRUE, by |-> "seed"]}
    /\ invites = {}
    /\ tables = {}
    /\ sections = {}
    /\ items = {}
    /\ orders = {}
    /\ now = 0
    /\ inv = [p \in InviteProcs |-> IdleInvite]
    /\ reset_tokens = {}
    /\ reset = [p \in ResetProcs |-> IdleReset]
    /\ contact = IdleContact
    /\ tab = [p \in TableProcs |-> IdleTab]
    /\ reg = [p \in RegProcs |-> IdleReg]
    /\ auth = IdleAuth
    /\ ord = [p \in OrdProcs |-> IdleOrd]
    /\ create = [p \in CreateProcs |-> IdleCreate]
    /\ join = [p \in JoinProcs |-> IdleJoin]
    /\ resp = Untracked
    /\ hist = NoHist

NextCreate ==
    \/ \E p \in CreateProcs, c \in CreateCallers, n \in CreateNames, dbok \in BOOLEAN :
          create_restaurant_begin(p, c, n, dbok)
    \/ \E p \in CreateProcs, dbok \in BOOLEAN : create_restaurant_insert_restaurant(p, dbok)
    \/ \E p \in CreateProcs, dbok \in BOOLEAN : create_restaurant_insert_manager(p, dbok)
    \/ \E p \in CreateProcs, dbok \in BOOLEAN : create_restaurant_commit(p, dbok)
    \/ \E p \in CreateProcs, dbok \in BOOLEAN : create_restaurant_respond(p, dbok)

SpecCreate == InitCreate /\ [][NextCreate]_vars

----------------------------------------------------------------------------
(* Menu and table administration: the routed writes of menu_handlers.rs    *)
(* and table_handlers.rs, called by a super_admin without the menu         *)
(* capability (u1 on rA), a manager with it (u3 on rA) and a caller with   *)
(* no row at all (u3 on rB).                                               *)

MenuCallers == {"u1", "u3"}
SectionRefs == {"sA", "sB", "sX"}
MenuItemRefs == {"i1", "iX"}
TableRefs == {"tA", "tX"}
TableNames == {"n1", NoneId}
ReorderRequests ==
    {<<>>,
     <<[item_id |-> "i1", display_order |-> 2]>>,
     <<[item_id |-> "i1", display_order |-> 2], [item_id |-> "iX", display_order |-> 2]>>}

InitMenu ==
    /\ users = {[id |-> "u1", email |-> "e1", password_hash |-> SeedHash, by |-> "seed"],
                [id |-> "u3", email |-> "e3", password_hash |-> SeedHash, by |-> "seed"]}
    /\ restaurants = {[id |-> RestaurantA, name |-> "n0"], [id |-> RestaurantB, name |-> "n0"]}
    /\ managers = {[restaurant_id |-> RestaurantA, user_id |-> "u1", role |-> "super_admin",
                    can_manage_menu |-> FALSE, by |-> "seed"],
                   [restaurant_id |-> RestaurantA, user_id |-> "u3", role |-> "manager",
                    can_manage_menu |-> TRUE, by |-> "seed"],
                   [restaurant_id |-> RestaurantB, user_id |-> "u1", role |-> "super_admin",
                    can_manage_menu |-> TRUE, by |-> "seed"]}
    /\ invites = {}
    /\ tables = {[id |-> "tA", restaurant_id |-> RestaurantA, name |-> "n0",
                  unique_code |-> "codeA"]}
    /\ sections = {[id |-> "sA", restaurant_id |-> RestaurantA],
                   [id |-> "sB", restaurant_id |-> RestaurantB]}
    /\ items = {}
    /\ orders = {}
    /\ now = 0
    /\ inv = [p \in InviteProcs |-> IdleInvite]
    /\ reset_tokens = {}
    /\ reset = [p \in ResetProcs |-> IdleReset]
    /\ contact = IdleContact
    /\ tab = [p \in TableProcs |-> IdleTab]
    /\ reg = [p \in RegProcs |-> IdleReg]
    /\ auth = IdleAuth
    /\ ord = [p \in OrdProcs |-> IdleOrd]
    /\ create = [p \in CreateProcs |-> IdleCreate]
    /\ join = [p \in JoinProcs |-> IdleJoin]
    /\ resp = NoResp
    /\ hist = NoHist

NextMenu ==
    \/ \E c \in MenuCallers, r \in AdminRestaurants : create_menu_section(c, r)
    \/ \E c \in MenuCallers, s \in SectionRefs : create_menu_item(c, s, 1)
    \/ \E c \in MenuCallers, i \in MenuItemRefs : update_menu_item(c, i, MaxPrice)
    \/ \E c \in MenuCallers, i \in MenuItemRefs : toggle_menu_item_availability(c, i, FALSE)
    \/ \E c \in MenuCallers, i \in MenuItemRefs : delete_menu_item(c, i)
    \/ \E c \in MenuCallers, q \in ReorderRequests : reorder_menu_items(c, q)
    \/ \E c \in MenuCallers, r \in AdminRestaurants, code \in GeneratedCodes :
          create_table(c, r, code)
    \/ \E c \in MenuCallers, r \in AdminRestaurants, t \in TableRefs, n \in TableNames :
          update_table(c, r, t, n)
    \/ \E c \in MenuCallers, r \in AdminRestaurants, t \in TableRefs : delete_table(c, r, t)
    \/ \E c \in MenuCallers, r \in AdminRestaurants, t \in TableRefs, code \in GeneratedCodes :
          refresh_table_code(c, r, t, code)

SpecMenu == InitMenu /\ [][NextMenu]_vars

----------------------------------------------------------------------------
(* Orders and their readers: two create_order requests next to the menu    *)
(* item writes, a manager removal, the clock, and the order read handlers. *)
(* u1 manages rA; u3 manages rB only.                                      *)

ViewProcs == {"o1", "o2"}
ViewLines == {[menu_item_id |-> "iA", quantity |-> MaxQty, special_requests |-> "no onions"]}
ViewOrderIds == {1, 2}

InitView ==
    /\ users = {[id |-> "u1", email |-> "e1", password_hash |-> SeedHash, by |-> "seed"],
                [id |-> "u3", email |-> "e3", password_hash |-> SeedHash, by |-> "seed"]}
    /\ restaurants = {[id |-> RestaurantA, name |-> "n0"], [id |-> RestaurantB, name |-> "n0"]}
    /\ managers = {[restaurant_id |-> RestaurantA, user_id |-> "u1", role |-> "super_admin",
                    can_manage_menu |-> TRUE, by |-> "seed"],
                   [restaurant_id |-> RestaurantB, user_id |-> "u3", role |-> "super_admin",
                    can_manage_menu |-> TRUE, by |-> "seed"]}
    /\ invites = {}
    /\ tables = {[id |-> "tA", restaurant_id |-> RestaurantA, name |-> "n0",
                  unique_code |-> "codeA"]}
    /\ sections = {[id |-> "sA", restaurant_id |-> RestaurantA]}
    /\ items = {[id |-> "iA", section_id |-> "sA", price |-> 1, available |-> TRUE,
                 display_order |-> 1]}
    /\ orders = {}
    /\ now = 0
    /\ inv = [p \in InviteProcs |-> IdleInvite]
    /\ reset_tokens = {}
    /\ reset = [p \in ResetProcs |-> IdleReset]
    /\ contact = IdleContact
    /\ tab = [p \in TableProcs |-> IdleTab]
    /\ reg = [p \in RegProcs |-> IdleReg]
    /\ auth = IdleAuth
    /\ ord = [p \in ViewProcs |-> IdleOrd]
    /\ create = [p \in CreateProcs |-> IdleCreate]
    /\ join = [p \in JoinProcs |-> IdleJoin]
    /\ resp = NoResp
    /\ hist = NoHist

NextView ==
    \/ \E p \in ViewProcs : create_order_table(p, "codeA", 1)
    \/ \E p \in ViewProcs, line \in ViewLines : create_order_line(p, line)
    \/ \E p \in ViewProcs : create_order_insert(p, TRUE)
    \/ update_menu_item("u1", "iA", MaxPrice)
    \/ toggle_menu_item_availability("u1", "iA", FALSE)
    \/ delete_menu_item("u1", "iA")
    \/ remove_manager("u3", RestaurantA, "u1")
    \/ tick
    \/ \E i \in ViewOrderIds : get_order(i)
    \/ \E c \in MenuCallers, r \in AdminRestaurants : list_restaurant_orders(c, r)
    \/ \E c \in MenuCallers, r \in AdminRestaurants : list_today_orders(c, r)
    \/ \E c \in MenuCallers, r \in AdminRestaurants, t \in TableRefs :
          list_table_orders(c, r, t)

SpecView == InitView /\ [][NextView]_vars

----------------------------------------------------------------------------
(* An invite that lapses: the super_admin u1 of rA, one invite for         *)
(* (rA, e2) that expires at the start of the run, the clock, invite_manager *)
(* and one join_restaurant request.                                        *)

InitInvite ==
    /\ users = {[id |-> "u1", email |-> "e1", password_hash |-> SeedHash, by |-> "seed"]}
    /\ restaurants = {[id |-> RestaurantA, name |-> "n0"]}
    /\ managers = {[restaurant_id |-> RestaurantA, user_id |-> "u1", role |-> "super_admin",
                    can_manage_menu |-> TRUE, by |-> "seed"]}
    /\ invites = {[id |-> "v1", restaurant_id |-> RestaurantA, email |-> "e2",
                   can_manage_menu |-> TRUE, token |-> "k1", expires_at |-> 0]}
    /\ tables = {}
    /\ sections = {}
    /\ items = {}
    /\ orders = {}
    /\ now = 0
    /\ inv = [p \in InviteProcs |-> IdleInvite]
    /\ reset_tokens = {}
    /\ reset = [p \in ResetProcs |-> IdleReset]
    /\ contact = IdleContact
    /\ tab = [p \in TableProcs |-> IdleTab]
    /\ reg = [p \in RegProcs |-> IdleReg]
    /\ auth = IdleAuth
    /\ ord = [p \in OrdProcs |-> IdleOrd]
    /\ create = [p \in CreateProcs |-> IdleCreate]
    /\ join = [p \in JoinProcs |-> IdleJoin]
    /\ resp = NoResp
    /\ hist = NoHist

NextInvite ==
    \/ tick
    \/ \E c \in BOOLEAN : invite_manager("u1", RestaurantA, "e2", c)
    \/ \E t \in InviteTokens : join_restaurant_invite("j1", RestaurantA, t, "e2")
    \/ \E dbok \in BOOLEAN : join_restaurant_user("j1", dbok)
    \/ \E pw \in Passwords, dbok \in BOOLEAN : join_restaurant_insert_user("j1", pw, dbok)
    \/ \E dbok \in BOOLEAN : join_restaurant_insert_manager("j1", dbok)
    \/ \E dbok \in BOOLEAN : join_restaurant_delete_invite("j1", dbok)
    \/ \E dbok \in BOOLEAN : join_restaurant_commit("j1", dbok)
    \/ \E dbok \in BOOLEAN : join_restaurant_respond("j1", dbok)
    \/ join_restaurant_return("j1")

SpecInvite == InitInvite /\ [][NextInvite]_vars

----------------------------------------------------------------------------
(* Tokens: managers with two secrets and lifetimes of zero and one hour    *)
(* issue tokens, clients alter or invent them, and the clock moves on.     *)

EmptyStore ==
    /\ users = {}
    /\ restaurants = {}
    /\ managers = {}
    /\ invites = {}
    /\ tables = {}
    /\ sections = {}
    /\ items = {}
    /\ orders = {}
    /\ now = 0
    /\ inv = [p \in InviteProcs |-> IdleInvite]
    /\ reset_tokens = {}
    /\ reset = [p \in ResetProcs |-> IdleReset]
    /\ tab = [p \in TableProcs |-> IdleTab]
    /\ reg = [p \in RegProcs |-> IdleReg]
    /\ ord = [p \in OrdProcs |-> IdleOrd]
    /\ create = [p \in CreateProcs |-> IdleCreate]
    /\ join = [p \in JoinProcs |-> IdleJoin]
    /\ resp = Untracked
    /\ hist = NoHist

InitToken ==
    /\ EmptyStore
    /\ contact = IdleContact
    /\ auth \in {[IdleAuth EXCEPT !.leeway = l] : l \in Leeways}

NextToken ==
    \/ \E m \in JwtManagers, u \in AuthUsers : generate_token(m, u)
    \/ tamper_token
    \/ present_malformed
    \/ \E m \in JwtManagers : validate_token(m)
    \/ auth_tick

SpecToken == InitToken /\ [][NextToken]_vars

(* Password hashes: a few hash_password calls, and verify_password on the  *)
(* stored hashes and on a string that is no hash.                          *)

InitPassword ==
    /\ EmptyStore
    /\ contact = IdleContact
    /\ auth = IdleAuth

StoredHashes == {auth.hashed[k].hash : k \in 1..Len(auth.hashed)}

NextPassword ==
    \/ \E p \in HashInputs : hash_password(p)
    \/ \E p \in HashInputs, h \in StoredHashes \cup {MalformedHash} : verify_password(p, h)

SpecPassword == InitPassword /\ [][NextPassword]_vars

----------------------------------------------------------------------------
(* Registrations racing with each other and with an invite redemption for  *)
(* the same email: the store has user u1 (e1) and an unexpired invite for  *)
(* e2.                                                                     *)

RegisterEmails == {"e1", "e2"}

InitRegister ==
    /\ users = {[id |-> "u1", email |-> "e1", password_hash |-> SeedHash, by |-> "seed"]}
    /\ restaurants = {[id |-> RestaurantA, name |-> "n0"]}
    /\ managers = {[restaurant_id |-> RestaurantA, user_id |-> "u1", role |-> "super_admin",
                    can_manage_menu |-> TRUE, by |-> "seed"]}
    /\ invites = {[id |-> "v1", restaurant_id |-> RestaurantA, email |-> "e2",
                   can_manage_menu |-> TRUE, token |-> "k1", expires_at |-> TicksPerDay]}
    /\ tables = {}
    /\ sections = {}
    /\ items = {}
    /\ orders = {}
    /\ now = 0
    /\ inv = [p \in InviteProcs |-> IdleInvite]
    /\ reset_tokens = {}
    /\ reset = [p \in ResetProcs |-> IdleReset]
    /\ contact = IdleContact
    /\ tab = [p \in TableProcs |-> IdleTab]
    /\ reg = [p \in RegProcs |-> IdleReg]
    /\ auth = IdleAuth
    /\ ord = [p \in OrdProcs |-> IdleOrd]
    /\ create = [p \in CreateProcs |-> IdleCreate]
    /\ join = [p \in JoinProcs |-> IdleJoin]
    /\ resp = Untracked
    /\ hist = NoHist

NextRegister ==
    \/ \E p \in RegProcs, e \in RegisterEmails, dbok \in BOOLEAN : register_lookup(p, e, dbok)
    \/ \E p \in RegProcs, pw \in Passwords, dbok \in BOOLEAN : register_insert(p, pw, dbok)
    \/ \E p \in RegProcs, dbok \in BOOLEAN : register_respond(p, dbok)
    \/ join_restaurant_invite("j1", RestaurantA, "k1", "e2")
    \/ \E dbok \in BOOLEAN : join_restaurant_user("j1", dbok)
    \/ \E pw \in Passwords, dbok \in BOOLEAN : join_restaurant_insert_user("j1", pw, dbok)
    \/ \E dbok \in BOOLEAN : join_restaurant_insert_manager("j1", dbok)
    \/ \E dbok \in BOOLEAN : join_restaurant_delete_invite("j1", dbok)
    \/ \E dbok \in BOOLEAN : join_restaurant_commit("j1", dbok)
    \/ \E dbok \in BOOLEAN : join_restaurant_respond("j1", dbok)

SpecRegister == InitRegister /\ [][NextRegister]_vars

----------------------------------------------------------------------------
(* Table codes: two requests of the menu manager u1, each a create_table   *)
(* or a refresh_table_code, run statement by statement next to each other. *)
(* Restaurant rA has table tA with the code "codeA".                       *)

InitTable ==
    /\ users = {[id |-> "u1", email |-> "e1", password_hash |-> SeedHash, by |-> "seed"],
                [id |-> "u3", email |-> "e3", password_hash |-> SeedHash, by |-> "seed"]}
    /\ restaurants = {[id |-> RestaurantA, name |-> "n0"], [id |-> RestaurantB, name |-> "n0"]}
    /\ managers = {[restaurant_id |-> RestaurantA, user_id |-> "u1", role |-> "super_admin",
                    can_manage_menu |-> TRUE, by |-> "seed"],
                   [restaurant_id |-> RestaurantB, user_id |-> "u1", role |-> "super_admin",
                    can_manage_menu |-> TRUE, by |-> "seed"],
                   [restaurant_id |-> RestaurantA, user_id |-> "u3", role |-> "manager",
                    can_manage_menu |-> FALSE, by |-> "seed"]}
    /\ invites = {}
    /\ tables = {[id |-> "tA", restaurant_id |-> RestaurantA, name |-> "n0",
                 unique_code |-> "codeA"]}
    /\ sections = {}
    /\ items = {}
    /\ orders = {}
    /\ now = 0
    /\ inv = [p \in InviteProcs |-> IdleInvite]
    /\ reset_tokens = {}
    /\ reset = [p \in ResetProcs |-> IdleReset]
    /\ contact = IdleContact
    /\ tab = [p \in TableProcs |-> IdleTab]
    /\ reg = [p \in RegProcs |-> IdleReg]
    /\ auth = IdleAuth
    /\ ord = [p \in OrdProcs |-> IdleOrd]
    /\ create = [p \in CreateProcs |-> IdleCreate]
    /\ join = [p \in JoinProcs |-> IdleJoin]
    /\ resp = Untracked
    /\ hist = NoHist

NextTable ==
    \/ \E p \in TableProcs, u \in {"u1", "u3"}, r \in {RestaurantA, RestaurantB},
          c \in DrawnCodes, dbok \in BOOLEAN : create_table_request(p, u, r, c, dbok)
    \/ \E p \in TableProcs, t \in TableRefs, c \in DrawnCodes, dbok \in BOOLEAN :
          refresh_table_code_request(p, "u1", RestaurantA, t, c, dbok)
    \/ \E p \in TableProcs, c \in DrawnCodes, dbok \in BOOLEAN : table_code_check(p, c, dbok)
    \/ \E p \in TableProcs, dbok \in BOOLEAN : create_table_insert(p, dbok)
    \/ \E p \in TableProcs, dbok \in BOOLEAN : create_table_respond(p, dbok)
    \/ \E p \in TableProcs, dbok \in BOOLEAN : refresh_table_code_update(p, dbok)

SpecTable == InitTable /\ [][NextTable]_vars

----------------------------------------------------------------------------
(* The rate limiter called with one of three pairs of arguments, among     *)
(* them those of the contact form, by two client addresses.                *)

InitContact ==
    /\ EmptyStore
    /\ auth = IdleAuth
    /\ contact \in {[IdleContact EXCEPT !.max_requests = a.max_requests,
                                        !.window = a.window] : a \in LimiterArguments}

NextContact ==
    \/ \E ip \in ClientAddresses : check_rate_limit(ip)
    \/ \E ip \in ClientAddresses, valid \in BOOLEAN, dbok \in BOOLEAN :
          submit_contact_form(ip, valid, dbok)
    \/ contact_tick

SpecContact == InitContact /\ [][NextContact]_vars

----------------------------------------------------------------------------
(* Routing: clients that hold a token of the server, a token signed with   *)
(* another secret, an altered token, a string that is no token, or none,   *)
(* call four routes of the /api scope and three routes outside it.         *)
(* Restaurant rA has the super_admin u1 and the manager u2.                *)

InitRoute ==
    /\ users = {[id |-> "u1", email |-> "e1", password_hash |-> SeedHash, by |-> "seed"],
                [id |-> "u2", email |-> "e2", password_hash |-> SeedHash, by |-> "seed"]}
    /\ restaurants = {[id |-> RestaurantA, name |-> "n0"]}
    /\ managers = {[restaurant_id |-> RestaurantA, user_id |-> "u1", role |-> "super_admin",
                    can_manage_menu |-> TRUE, by |-> "seed"],
                   [restaurant_id |-> RestaurantA, user_id |-> "u2", role |-> "manager",
                    can_manage_menu |-> FALSE, by |-> "seed"]}
    /\ invites = {}
    /\ tables = {[id |-> "tA", restaurant_id |-> RestaurantA, name |-> "n0",
                 unique_code |-> "codeA"]}
    /\ sections = {[id |-> "sA", restaurant_id |-> RestaurantA]}
    /\ items = {[id |-> "iA", section_id |-> "sA", price |-> 1, available |-> TRUE,
                 display_order |-> 1]}
    /\ orders = {}
    /\ now = 0
    /\ inv = [p \in InviteProcs |-> IdleInvite]
    /\ reset_tokens = {}
    /\ reset = [p \in ResetProcs |-> IdleReset]
    /\ contact = IdleContact
    /\ tab = [p \in TableProcs |-> IdleTab]
    /\ reg = [p \in RegProcs |-> IdleReg]
    /\ auth \in {[IdleAuth EXCEPT !.leeway = l] : l \in Leeways}
    /\ ord = [p \in OrdProcs |-> IdleOrd]
    /\ create = [p \in CreateProcs |-> IdleCreate]
    /\ join = [p \in JoinProcs |-> IdleJoin]
    /\ resp = NoResp
    /\ hist = NoHist

NextRoute ==
    \/ \E s \in Secrets, u \in AuthUsers :
          generate_token([ServerManager EXCEPT !.secret = s], u)
    \/ tamper_token
    \/ present_malformed
    \/ drop_token
    \/ auth_tick
    \/ api_remove_manager(RestaurantA, "u2")
    \/ api_update_menu_item("iA", MaxPrice)
    \/ api_delete_table(RestaurantA, "tA")
    \/ api_list_restaurant_orders(RestaurantA)
    \/ \E p \in OrdProcs : create_order_table(p, "codeA", 1)
    \/ \E p \in OrdProcs, line \in ViewLines : create_order_line(p, line)
    \/ \E p \in OrdProcs : create_order_insert(p, TRUE)
    \/ get_order(1)
    \/ health

SpecRoute == InitRoute /\ [][NextRoute]_vars

----------------------------------------------------------------------------
(* Roles: one invite redemption for a new account, statement by statement, *)
(* next to create_restaurant, update_manager_permissions and               *)
(* remove_manager called by every registered user.  Restaurant rA has the  *)
(* super_admin u1 and an unexpired invite for "e2".                        *)

RoleRestaurants == {RestaurantA, RestaurantB}
RoleTargets == {"u1", NewUserId("j1")}

InitRole ==
    /\ users = {[id |-> "u1", email |-> "e1", password_hash |-> SeedHash, by |-> "seed"]}
    /\ restaurants = {[id |-> RestaurantA, name |-> "n0"]}
    /\ managers = {[restaurant_id |-> RestaurantA, user_id |-> "u1", role |-> "super_admin",
                    can_manage_menu |-> TRUE, by |-> "seed"]}
    /\ invites = {[id |-> "v1", restaurant_id |-> RestaurantA, email |-> "e2",
                   can_manage_menu |-> FALSE, token |-> "k1", expires_at |-> TicksPerDay]}
    /\ tables = {}
    /\ sections = {}
    /\ items = {}
    /\ orders = {}
    /\ now = 0
    /\ inv = [p \in InviteProcs |-> IdleInvite]
    /\ reset_tokens = {}
    /\ reset = [p \in ResetProcs |-> IdleReset]
    /\ contact = IdleContact
    /\ tab = [p \in TableProcs |-> IdleTab]
    /\ reg = [p \in RegProcs |-> IdleReg]
    /\ auth = IdleAuth
    /\ ord = [p \in OrdProcs |-> IdleOrd]
    /\ create = [p \in CreateProcs |-> IdleCreate]
    /\ join = [p \in JoinProcs |-> IdleJoin]
    /\ resp = NoResp
    /\ hist = NoHist

NextRole ==
    \/ join_restaurant_invite("j1", RestaurantA, "k1", "e2")
    \/ join_restaurant_user("j1", TRUE)
    \/ join_restaurant_insert_user("j1", "pw1", TRUE)
    \/ \E dbok \in BOOLEAN : join_restaurant_insert_manager("j1", dbok)
    \/ join_restaurant_delete_invite("j1", TRUE)
    \/ \E dbok \in BOOLEAN : join_restaurant_commit("j1", dbok)
    \/ join_restaurant_respond("j1", TRUE)
    \/ \E c \in {u.id : u \in users} : create_restaurant(c, "n1")
    \/ \E c \in {u.id : u \in users}, r \in RoleRestaurants, t \in RoleTargets, m \in BOOLEAN :
          update_manager_permissions(c, r, t, m)
    \/ \E c \in {u.id : u \in users}, r \in RoleRestaurants, t \in RoleTargets :
          remove_manager(c, r, t)

SpecRole == InitRole /\ [][NextRole]_vars

----------------------------------------------------------------------------
(* Invitations issued next to each other: two invite_manager requests,     *)
(* statement by statement, by the super_admin u1 or the plain manager u3   *)
(* of rA, for an email without account or invite ("e5"), the email of the  *)
(* manager u3 ("e3") or the email of the stored invite ("e2").             *)

RaceEmails == {"e2", "e3", "e5"}

InitInviteRace ==
    /\ users = {[id |-> "u1", email |-> "e1", password_hash |-> SeedHash, by |-> "seed"],
                [id |-> "u3", email |-> "e3", password_hash |-> SeedHash, by |-> "seed"]}
    /\ restaurants = {[id |-> RestaurantA, name |-> "n0"]}
    /\ managers = {[restaurant_id |-> RestaurantA, user_id |-> "u1", role |-> "super_admin",
                    can_manage_menu |-> TRUE, by |-> "seed"],
                   [restaurant_id |-> RestaurantA, user_id |-> "u3", role |-> "manager",
                    can_manage_menu |-> TRUE, by |-> "seed"]}
    /\ invites = {[id |-> "v1", restaurant_id |-> RestaurantA, email |-> "e2",
                   can_manage_menu |-> TRUE, token |-> "k1", expires_at |-> TicksPerDay]}
    /\ tables = {}
    /\ sections = {}
    /\ items = {}
    /\ orders = {}
    /\ now = 0
    /\ inv = [p \in InviteProcs |-> IdleInvite]
    /\ reset_tokens = {}
    /\ reset = [p \in ResetProcs |-> IdleReset]
    /\ contact = IdleContact
    /\ tab = [p \in TableProcs |-> IdleTab]
    /\ reg = [p \in RegProcs |-> IdleReg]
    /\ auth = IdleAuth
    /\ ord = [p \in OrdProcs |-> IdleOrd]
    /\ create = [p \in CreateProcs |-> IdleCreate]
    /\ join = [p \in JoinProcs |-> IdleJoin]
    /\ resp = Untracked
    /\ hist = NoHist

NextInviteRace ==
    \/ \E p \in InviteProcs, c \in {"u1", "u3"}, e \in RaceEmails, m \in BOOLEAN,
          dbok \in BOOLEAN :
          invite_manager_request(p, c, RestaurantA, e, m, dbok)
    \/ \E p \in InviteProcs, dbok \in BOOLEAN : invite_manager_statement(p, dbok)
    \/ tick

SpecInviteRace == InitInviteRace /\ [][NextInviteRace]_vars

----------------------------------------------------------------------------
(* Password resets: the user u1 holds up to two reset tokens, and two      *)
(* confirm_password_reset requests run statement by statement next to each *)
(* other and after each other while the clock passes the expiry.           *)

ResetPasswords == {"pw1", "pw2"}

InitReset ==
    /\ users = {[id |-> "u1", email |-> "e1", password_hash |-> SeedHash, by |-> "seed"]}
    /\ restaurants = {}
    /\ managers = {}
    /\ invites = {}
    /\ tables = {}
    /\ sections = {}
    /\ items = {}
    /\ orders = {}
    /\ now = 0
    /\ inv = [p \in InviteProcs |-> IdleInvite]
    /\ reset_tokens = {}
    /\ reset = [p \in ResetProcs |-> IdleReset]
    /\ contact = IdleContact
    /\ tab = [p \in TableProcs |-> IdleTab]
    /\ reg = [p \in RegProcs |-> IdleReg]
    /\ auth = IdleAuth
    /\ ord = [p \in OrdProcs |-> IdleOrd]
    /\ create = [p \in CreateProcs |-> IdleCreate]
    /\ join = [p \in JoinProcs |-> IdleJoin]
    /\ resp = Untracked
    /\ hist = NoHist

NextReset ==
    \/ \E dbok \in BOOLEAN : create_password_reset_token("u1", dbok)
    \/ \E p \in ResetProcs, t \in ResetTokenPool, pw \in ResetPasswords, dbok \in BOOLEAN :
          confirm_password_reset_lookup(p, t, pw, dbok)
    \/ \E p \in ResetProcs, dbok \in BOOLEAN : confirm_password_reset_update_user(p, dbok)
    \/ \E p \in ResetProcs, dbok \in BOOLEAN : confirm_password_reset_mark_used(p, dbok)
    \/ \E p \in ResetProcs, dbok \in BOOLEAN : confirm_password_reset_commit(p, dbok)
    \/ \E p \in ResetProcs : confirm_password_reset_return(p)
    \/ tick

SpecReset == InitReset /\ [][NextReset]_vars

----------------------------------------------------------------------------
(* Writes addressed across restaurants: u3 holds one grant, for rA, with   *)
(* the menu capability; u1 holds one for rB.  Both restaurants carry a     *)
(* table, a section and an item, and u3 calls every write with every       *)
(* combination of path restaurant and row id.                              *)

OwnerCallers == {"u3"}
OwnerSections == {"sA", "sB"}
OwnerItems == {"iA", "iB"}
OwnerTables == {"tA", "tB"}
OwnerReorders ==
    {<<[item_id |-> "iA", display_order |-> 2]>>,
     <<[item_id |-> "iB", display_order |-> 2]>>,
     <<[item_id |-> "iA", display_order |-> 2], [item_id |-> "iB", display_order |-> 2]>>}

InitOwner ==
    /\ users = {[id |-> "u1", email |-> "e1", password_hash |-> SeedHash, by |-> "seed"],
                [id |-> "u3", email |-> "e3", password_hash |-> SeedHash, by |-> "seed"]}
    /\ restaurants = {[id |-> RestaurantA, name |-> "n0"], [id |-> RestaurantB, name |-> "n0"]}
    /\ managers = {[restaurant_id |-> RestaurantA, user_id |-> "u3", role |-> "manager",
                    can_manage_menu |-> TRUE, by |-> "seed"],
                   [restaurant_id |-> RestaurantB, user_id |-> "u1", role |-> "super_admin",
                    can_manage_menu |-> TRUE, by |-> "seed"]}
    /\ invites = {}
    /\ tables = {[id |-> "tA", restaurant_id |-> RestaurantA, name |-> "n0",
                  unique_code |-> "codeA"],
                 [id |-> "tB", restaurant_id |-> RestaurantB, name |-> "n0",
                  unique_code |-> "codeB"]}
    /\ sections = {[id |-> "sA", restaurant_id |-> RestaurantA],
                   [id |-> "sB", restaurant_id |-> RestaurantB]}
    /\ items = {[id |-> "iA", section_id |-> "sA", price |-> 1, available |-> TRUE,
                 display_order |-> 1],
                [id |-> "iB", section_id |-> "sB", price |-> 1, available |-> TRUE,
                 display_order |-> 1]}
    /\ orders = {}
    /\ now = 0
    /\ inv = [p \in InviteProcs |-> IdleInvite]
    /\ reset_tokens = {}
    /\ reset = [p \in ResetProcs |-> IdleReset]
    /\ contact = IdleContact
    /\ tab = [p \in TableProcs |-> IdleTab]
    /\ reg = [p \in RegProcs |-> IdleReg]
    /\ auth = IdleAuth
    /\ ord = [p \in OrdProcs |-> IdleOrd]
    /\ create = [p \in CreateProcs |-> IdleCreate]
    /\ join = [p \in JoinProcs |-> IdleJoin]
    /\ resp = NoResp
    /\ hist = NoHist

NextOwner ==
    \/ \E c \in OwnerCallers, r \in AdminRestaurants : create_menu_section(c, r)
    \/ \E c \in OwnerCallers, s \in OwnerSections : create_menu_item(c, s, 1)
    \/ \E c \in OwnerCallers, i \in OwnerItems : update_menu_item(c, i, MaxPrice)
    \/ \E c \in OwnerCallers, i \in OwnerItems : toggle_menu_item_availability(c, i, FALSE)
    \/ \E c \in OwnerCallers, i \in OwnerItems : delete_menu_item(c, i)
    \/ \E c \in OwnerCallers, q \in OwnerReorders : reorder_menu_items(c, q)
    \/ \E c \in OwnerCallers, r \in AdminRestaurants : create_table(c, r, "codeN")
    \/ \E c \in OwnerCallers, r \in AdminRestaurants, t \in OwnerTables :
          update_table(c, r, t, "n1")
    \/ \E c \in OwnerCallers, r \in AdminRestaurants, t \in OwnerTables : delete_table(c, r, t)
    \/ \E c \in OwnerCallers, r \in AdminRestaurants, t \in OwnerTables :
          refresh_table_code(c, r, t, "codeR")

SpecOwner == InitOwner /\ [][NextOwner]_vars

----------------------------------------------------------------------------
(* Order lists across restaurants: rA and rB each carry a table and an     *)
(* orderable item, two create_order requests place orders at either        *)
(* table, and u1, a member of rA only, reads the three lists with every    *)
(* combination of path restaurant and path table.                          *)

ListLines ==
    {[menu_item_id |-> i, quantity |-> 1, special_requests |-> NoneId] : i \in {"iA", "iB"}}

InitLists ==
    /\ users = {[id |-> "u1", email |-> "e1", password_hash |-> SeedHash, by |-> "seed"],
                [id |-> "u3", email |-> "e3", password_hash |-> SeedHash, by |-> "seed"]}
    /\ restaurants = {[id |-> RestaurantA, name |-> "n0"], [id |-> RestaurantB, name |-> "n0"]}
    /\ managers = {[restaurant_id |-> RestaurantA, user_id |-> "u1", role |-> "manager",
                    can_manage_menu |-> FALSE, by |-> "seed"],
                   [restaurant_id |-> RestaurantB, user_id |-> "u3", role |-> "super_admin",
                    can_manage_menu |-> TRUE, by |-> "seed"]}
    /\ invites = {}
    /\ tables = {[id |-> "tA", restaurant_id |-> RestaurantA, name |-> "n0",
                  unique_code |-> "codeA"],
                 [id |-> "tB", restaurant_id |-> RestaurantB, name |-> "n0",
                  unique_code |-> "codeB"]}
    /\ sections = {[id |-> "sA", restaurant_id |-> RestaurantA],
                   [id |-> "sB", restaurant_id |-> RestaurantB]}
    /\ items = {[id |-> "iA", section_id |-> "sA", price |-> 1, available |-> TRUE,
                 display_order |-> 1],
                [id |-> "iB", section_id |-> "sB", price |-> 1, available |-> TRUE,
                 display_order |-> 1]}
    /\ orders = {}
    /\ now = 0
    /\ inv = [p \in InviteProcs |-> IdleInvite]
    /\ reset_tokens = {}
    /\ reset = [p \in ResetProcs |-> IdleReset]
    /\ contact = IdleContact
    /\ tab = [p \in TableProcs |-> IdleTab]
    /\ reg = [p \in RegProcs |-> IdleReg]
    /\ auth = IdleAuth
    /\ ord = [p \in ViewProcs |-> IdleOrd]
    /\ create = [p \in CreateProcs |-> IdleCreate]
    /\ join = [p \in JoinProcs |-> IdleJoin]
    /\ resp = NoResp
    /\ hist = NoHist

NextLists ==
    \/ \E p \in ViewProcs, code \in {"codeA", "codeB"} : create_order_table(p, code, 1)
    \/ \E p \in ViewProcs, line \in ListLines : create_order_line(p, line)
    \/ \E p \in ViewProcs : create_order_insert(p, TRUE)
    \/ tick
    \/ \E r \in AdminRestaurants : list_restaurant_orders("u1", r)
    \/ \E r \in AdminRestaurants : list_today_orders("u1", r)
    \/ \E r \in AdminRestaurants, t \in OwnerTables : list_table_orders("u1", r, t)

SpecLists == InitLists /\ [][NextLists]_vars

----------------------------------------------------------------------------
(* A table code that is rotated: u1 manages rA with the menu capability,   *)
(* tA starts with codeA, refresh_table_code gives tA a code not in use,    *)
(* create_table may hand a freed code to a second table, and two           *)
(* create_order requests look tables up by any of the codes.               *)

RotatedCodes == {"codeA", "codeN", "codeM"}

InitRefresh ==
    /\ users = {[id |-> "u1", email |-> "e1", password_hash |-> SeedHash, by |-> "seed"]}
    /\ restaurants = {[id |-> RestaurantA, name |-> "n0"]}
    /\ managers = {[restaurant_id |-> RestaurantA, user_id |-> "u1", role |-> "super_admin",
                    can_manage_menu |-> TRUE, by |-> "seed"]}
    /\ invites = {}
    /\ tables = {[id |-> "tA", restaurant_id |-> RestaurantA, name |-> "n0",
                  unique_code |-> "codeA"]}
    /\ sections = {[id |-> "sA", restaurant_id |-> RestaurantA]}
    /\ items = {[id |-> "iA", section_id |-> "sA", price |-> 1, available |-> TRUE,
                 display_order |-> 1]}
    /\ orders = {}
    /\ now = 0
    /\ inv = [p \in InviteProcs |-> IdleInvite]
    /\ reset_tokens = {}
    /\ reset = [p \in ResetProcs |-> IdleReset]
    /\ contact = IdleContact
    /\ tab = [p \in TableProcs |-> IdleTab]
    /\ reg = [p \in RegProcs |-> IdleReg]
    /\ auth = IdleAuth
    /\ ord = [p \in ViewProcs |-> IdleOrd]
    /\ create = [p \in CreateProcs |-> IdleCreate]
    /\ join = [p \in JoinProcs |-> IdleJoin]
    /\ resp = NoResp
    /\ hist = NoHist

NextRefresh ==
    \/ \E p \in ViewProcs, code \in RotatedCodes : create_order_table(p, code, 1)
    \/ \E p \in ViewProcs, line \in ViewLines : create_order_line(p, line)
    \/ \E p \in ViewProcs : create_order_insert(p, TRUE)
    \/ \E t \in OwnerTables, code \in RotatedCodes :
          refresh_table_code("u1", RestaurantA, t, code)
    \/ \E code \in RotatedCodes : create_table("u1", RestaurantA, code)

SpecRefresh == InitRefresh /\ [][NextRefresh]_vars

----------------------------------------------------------------------------
(* Reordering the menu: rA carries the items iA and iC, rB the item iB;    *)
(* u3 holds the menu capability for rA only, u1 for rB only.  The lists    *)
(* name one or two different items, among them an item of the other        *)
(* restaurant and a missing one, and any of the UPDATEs may fail.          *)

ReorderItems == {"iA", "iC", "iB", "iX"}
ReorderPositions == {2, 3}
ReorderLists ==
    {<<>>}
    \cup {<<[item_id |-> i, display_order |-> d]>> : i \in ReorderItems, d \in ReorderPositions}
    \cup {<<[item_id |-> ij[1], display_order |-> 2], [item_id |-> ij[2], display_order |-> 3]>> :
             ij \in {x \in ReorderItems \X ReorderItems : x[1] # x[2]}}

InitReorder ==
    /\ users = {[id |-> "u1", email |-> "e1", password_hash |-> SeedHash, by |-> "seed"],
                [id |-> "u3", email |-> "e3", password_hash |-> SeedHash, by |-> "seed"]}
    /\ restaurants = {[id |-> RestaurantA, name |-> "n0"], [id |-> RestaurantB, name |-> "n0"]}
    /\ managers = {[restaurant_id |-> RestaurantA, user_id |-> "u3", role |-> "manager",
                    can_manage_menu |-> TRUE, by |-> "seed"],
                   [restaurant_id |-> RestaurantB, user_id |-> "u1", role |-> "super_admin",
                    can_manage_menu |-> TRUE, by |-> "seed"]}
    /\ invites = {}
    /\ tables = {}
    /\ sections = {[id |-> "sA", restaurant_id |-> RestaurantA],
                   [id |-> "sB", restaurant_id |-> RestaurantB]}
    /\ items = {[id |-> "iA", section_id |-> "sA", price |-> 1, available |-> TRUE,
                 display_order |-> 1],
                [id |-> "iC", section_id |-> "sA", price |-> 1, available |-> TRUE,
                 display_order |-> 1],
                [id |-> "iB", section_id |-> "sB", price |-> 1, available |-> TRUE,
                 display_order |-> 1]}
    /\ orders = {}
    /\ now = 0
    /\ inv = [p \in InviteProcs |-> IdleInvite]
    /\ reset_tokens = {}
    /\ reset = [p \in ResetProcs |-> IdleReset]
    /\ contact = IdleContact
    /\ tab = [p \in TableProcs |-> IdleTab]
    /\ reg = [p \in RegProcs |-> IdleReg]
    /\ auth = IdleAuth
    /\ ord = [p \in OrdProcs |-> IdleOrd]
    /\ create = [p \in CreateProcs |-> IdleCreate]
    /\ join = [p \in JoinProcs |-> IdleJoin]
    /\ resp = NoResp
    /\ hist = NoHist

NextReorder ==
    \/ \E c \in OwnerCallers \cup {"u1"}, q \in ReorderLists : reorder_menu_items(c, q)
    \/ \E c \in OwnerCallers \cup {"u1"}, q \in ReorderLists, k \in 1..MaxLines :
          reorder_menu_items_failing(c, q, k)

SpecReorder == InitReorder /\ [][NextReorder]_vars

----------------------------------------------------------------------------
(* Properties of join_restaurant                                           *)

(* rows of the store written by the current request of p *)
UsersOf(p) == {u \in users : u.by = p} \ join[p].before.users
GrantsOf(p) == {m \in managers : m.by = p} \ join[p].before.managers

(* the transaction of p's current request was committed *)
JoinCommitted(p) ==
    \/ join[p].pc = "respond"
    \/ join[p].pc = "done" /\ (join[p].status = 200 \/ join[p].failed = "respond")

JoinInFlight(p) ==
    join[p].pc \in {"user", "insert_user", "insert_manager", "delete_invite", "commit"}

OneGrantPerPair ==
    \A m \in managers : Cardinality(ManagerRows(managers, m.restaurant_id, m.user_id)) = 1

(* C3: of two join_restaurant requests that race for the same restaurant   *)
(* and invite token with the invite's email, at most one commits and       *)
(* returns success; an attempt that does not succeed leaves no manager row *)
(* of its own; no (restaurant, user) pair ever has two manager rows, and   *)
(* after a success the pair has exactly one.                               *)
C3_NoDoubleRedemption ==
    /\ [](/\ OneGrantPerPair
          /\ \A p \in JoinProcs :
                /\ (join[p].pc = "done" /\ ~JoinCommitted(p)) => GrantsOf(p) = {}
                /\ JoinInFlight(p) => GrantsOf(p) = {}
                /\ (join[p].pc = "done" /\ join[p].status = 200) =>
                      Cardinality(ManagerRows(managers, join[p].restaurant_id,
                                              join[p].user_id)) = 1)
    /\ [][\A p \in JoinProcs :
            (join[p].pc = "commit" /\ join'[p].pc = "respond")
                => <<join[p].restaurant_id, join[p].token>> \notin hist.redeemed]_vars

(* both requests passed the invite lookup before either committed; one     *)
(* succeeded, the other was refused and left nothing                       *)
C3_Witness ==
    \E p, q \in JoinProcs :
        /\ p # q
        /\ join[p].pc = "done" /\ join[p].status = 200
        /\ join[q].pc = "done" /\ join[q].status \in {409, 500}
        /\ join[q].token = join[p].token /\ join[q].email = join[p].email
        /\ join[q].invite # {} /\ ~join[q].prior /\ ~join[p].prior
        /\ GrantsOf(q) = {}
        /\ Cardinality(ManagerRows(managers, join[p].restaurant_id, join[p].user_id)) = 1

(* C4: a successful join_restaurant deletes the invite row; a request that *)
(* arrives after the token has been redeemed is refused with 400 (or 404)  *)
(* and adds no manager row, so no (restaurant, user) pair has more than    *)
(* one grant.                                                              *)
C4_SecondRedemptionFails ==
    /\ OneGrantPerPair
    /\ \A p \in JoinProcs :
          /\ JoinCommitted(p) => join[p].invite \cap invites = {}
          /\ (join[p].pc # "idle" /\ join[p].prior) =>
                /\ join[p].pc = "done"
                /\ join[p].status \in {400, 404}
                /\ GrantsOf(p) = {}
                /\ UsersOf(p) = {}

(* the token was redeemed by an earlier request, which created the user    *)
(* and the grant; the same token and email were then presented again       *)
C4_Witness ==
    \E p \in JoinProcs :
        /\ join[p].pc = "done" /\ join[p].prior /\ join[p].status = 400
        /\ join[p].token = "k1"
        /\ invites = {}
        /\ \E u \in join[p].before.users :
              /\ u.email = join[p].email
              /\ u.by \in JoinProcs
              /\ Cardinality(ManagerRows(managers, join[p].restaurant_id, u.id)) = 1

(* C5: a join_restaurant request applies all of its effects or none.  Once *)
(* its transaction is committed the user exists, the manager row is in the *)
(* store and the invite row is gone; while it runs, and after it failed at *)
(* the user lookup or insert, the manager insert, the invite delete or the *)
(* commit, the store holds no user or manager row of it and the invite row *)
(* is still there (unless another request redeemed it), so that a later    *)
(* request can redeem it.                                                  *)
C5_AllOrNothing ==
    \A p \in JoinProcs :
        /\ JoinCommitted(p) =>
              /\ \E u \in users : u.id = join[p].user_id /\ u.email = join[p].email
              /\ ManagerRows(managers, join[p].restaurant_id, join[p].user_id) # {}
              /\ join[p].invite \cap invites = {}
        /\ (JoinInFlight(p) \/ (join[p].pc = "done" /\ ~JoinCommitted(p))) =>
              /\ UsersOf(p) = {}
              /\ GrantsOf(p) = {}
              /\ \/ join[p].invite \subseteq invites
                 \/ <<join[p].restaurant_id, join[p].token>> \in hist.redeemed

(* a redemption failed after it had written rows in its transaction; a     *)
(* later request with the same token and email then succeeded              *)
C5_Witness ==
    \E p \in JoinProcs :
        /\ join[p].pc = "done" /\ join[p].status = 200 /\ join[p].retry
        /\ join[p].before.invites # {}
        /\ join[p].before.users = {u \in users : u.by = "seed"}
        /\ invites = {}

(* C6: a join_restaurant request made after the expires_at of the invite   *)
(* it names, with the invite's email, is not a redemption: it does not     *)
(* return success, its transaction is never committed and it creates no    *)
(* user and no manager row.  (Which error status it gets is not held       *)
(* against the claim here.)                                                *)
C6_ExpiredNeverRedeemable ==
    \A p \in JoinProcs :
        (/\ join[p].pc # "idle"
         /\ \E i \in join[p].before.invites :
               /\ i.restaurant_id = join[p].restaurant_id
               /\ i.token = join[p].token
               /\ i.email = join[p].email
               /\ join[p].at > i.expires_at)
        => (/\ join[p].pc = "done" => join[p].status # 200
            /\ ~JoinCommitted(p)
            /\ UsersOf(p) = {}
            /\ GrantsOf(p) = {})

(* the invite that the request of p names, with the request's email, and   *)
(* that had not expired when the request arrived                           *)
ValidInviteOf(p) ==
    {i \in join[p].before.invites :
        /\ i.restaurant_id = join[p].restaurant_id
        /\ i.token = join[p].token
        /\ i.email = join[p].email
        /\ join[p].at < i.expires_at}

(* C11: a join_restaurant request with a valid unexpired invite and the    *)
(* invite's email, for which a user with that email exists: when that user *)
(* has no manager row for the restaurant (before the request and when it   *)
(* ends) the request succeeds (a store error, 500, aside), creates no      *)
(* user, leaves the user's password hash as it was, inserts one manager    *)
(* row for that user and deletes the invite; when the user had a manager   *)
(* row the request is answered 409 and changes nothing.                    *)
C11_ExistingUserJoins ==
    \A p \in JoinProcs :
        \A u \in join[p].before.users :
            (/\ join[p].pc = "done"
             /\ ValidInviteOf(p) # {}
             /\ u.email = join[p].email)
            => IF ManagerRows(join[p].before.managers, join[p].restaurant_id, u.id) = {}
               THEN /\ join[p].status \in {200, 500}
                       \/ ManagerRows(managers, join[p].restaurant_id, u.id) # {}
                    /\ join[p].status = 200 =>
                          /\ UsersOf(p) = {}
                          /\ u \in users
                          /\ Cardinality(ManagerRows(managers, join[p].restaurant_id, u.id)) = 1
                          /\ ValidInviteOf(p) \cap invites = {}
               ELSE /\ join[p].status = 409
                    /\ UsersOf(p) = {} /\ GrantsOf(p) = {}
                    /\ ValidInviteOf(p) \subseteq invites

(* the request of p named a token under which the restaurant had no invite *)
NamedNoInvite(p) ==
    ~\E i \in join[p].before.invites :
        i.restaurant_id = join[p].restaurant_id /\ i.token = join[p].token

(* the request of p named an invite whose expiry had passed on arrival     *)
NamedExpiredInvite(p) ==
    \E i \in join[p].before.invites :
        /\ i.restaurant_id = join[p].restaurant_id /\ i.token = join[p].token
        /\ join[p].at > i.expires_at

(* C21: join_restaurant answers a request that names an expired invite     *)
(* exactly as it answers one whose token does not exist for the            *)
(* restaurant, whatever email was supplied: 400 with the body "Invalid or  *)
(* expired invite token" and nothing else.                                 *)
C21_ExpiredLooksNonexistent ==
    \A p \in JoinProcs :
        (join[p].pc = "done" /\ (NamedNoInvite(p) \/ NamedExpiredInvite(p)))
            => /\ join[p].status = 400
               /\ join[p].error = InvalidOrExpired

(* the request of p named an invite that was unexpired on arrival and was  *)
(* issued to another email                                                 *)
MismatchedInvites(p) ==
    {i \in join[p].before.invites :
        /\ i.restaurant_id = join[p].restaurant_id /\ i.token = join[p].token
        /\ join[p].at < i.expires_at
        /\ i.email # join[p].email}

(* C22: a join_restaurant request with an unexpired token and an email     *)
(* other than the invite's is answered 400 and writes nothing: no user,    *)
(* no restaurant_managers row, and the invite row stays as it was, to be   *)
(* consumed only by a redemption with the matching email.                  *)
C22_EmailMismatchRejected ==
    \A p \in JoinProcs :
        (join[p].pc = "done" /\ MismatchedInvites(p) # {})
            => /\ join[p].status = 400 /\ join[p].error = EmailMismatch
               /\ UsersOf(p) = {} /\ GrantsOf(p) = {} /\ ~JoinCommitted(p)
               /\ \A i \in MismatchedInvites(p) :
                     \/ i \in invites
                     \/ <<i.restaurant_id, i.token>> \in hist.redeemed

(* after the mismatch was refused, a later request with the invite's email *)
(* redeemed the same token                                                 *)
C22_Witness ==
    \E p \in JoinProcs, q \in JoinProcs :
        /\ p # q
        /\ join[p].pc = "done" /\ join[p].status = 400 /\ MismatchedInvites(p) # {}
        /\ join[q].pc = "done" /\ join[q].status = 200
        /\ join[q].token = join[p].token /\ join[q].at > join[p].at
        /\ GrantsOf(q) # {}

----------------------------------------------------------------------------
(* Properties of create_order                                              *)

RECURSIVE SumLines(_)
SumLines(snaps) ==
    IF snaps = <<>> THEN 0
    ELSE snaps[1].price * snaps[1].quantity + SumLines(Tail(snaps))

OrderRowsOf(p) == {r \in orders : r.by = p /\ r.id \notin ord[p].before}

(* every line of the request was, when it was validated, an available item *)
(* of the table's restaurant with a positive quantity                      *)
AllLinesValid(o) ==
    /\ o.table_id # NoneId
    /\ o.len > 0
    /\ Len(o.items) = o.len
    /\ \A k \in 1..Len(o.items) :
          o.seen[k].belongs /\ o.seen[k].available /\ o.items[k].quantity > 0

(* C1: a create_order request whose table code resolves and whose every    *)
(* line names an available item of the table's restaurant with quantity    *)
(* > 0 succeeds with 201 (unless the INSERT itself fails, which gives 500  *)
(* and no row); the total stored in the order row and returned in the      *)
(* response is the sum over the stored snapshots of price x quantity, and  *)
(* each snapshot price is the price the item had when its line was         *)
(* validated, whatever price updates ran in between.                       *)
C1_TotalIsSnapshotSum ==
    /\ \A r \in orders : r.total_amount = SumLines(r.items)
    /\ \A p \in OrdProcs :
          ord[p].pc = "done" =>
            /\ AllLinesValid(ord[p]) =>
                  \/ ord[p].status = 201
                  \/ ord[p].status = 500 /\ OrderRowsOf(p) = {}
            /\ ord[p].status = 201 =>
                  \E r \in orders :
                    /\ OrderRowsOf(p) = {r}
                    /\ r.id = ord[p].order_id
                    /\ r.total_amount = ord[p].total_amount
                    /\ Len(r.items) = ord[p].len
                    /\ Len(ord[p].items) = ord[p].len
                    /\ \A k \in 1..Len(r.items) :
                          /\ r.items[k].price = ord[p].seen[k].price
                          /\ r.items[k].quantity = ord[p].items[k].quantity
                          /\ r.items[k].menu_item_id = ord[p].items[k].menu_item_id

(* a two-line order for the same item, re-priced between the validation of *)
(* the two lines, committed with both snapshot prices                      *)
C1_Witness ==
    \E p \in OrdProcs : \E r \in orders :
        /\ ord[p].pc = "done" /\ ord[p].status = 201
        /\ r.id = ord[p].order_id
        /\ Len(r.items) = 2
        /\ r.items[1].menu_item_id = r.items[2].menu_item_id
        /\ r.items[1].price # r.items[2].price
        /\ r.items[2].quantity = 2
        /\ r.total_amount = r.items[1].price * r.items[1].quantity + r.items[2].price * 2

(* the request of p names, in some line, an item of another restaurant     *)
NamesForeignItem(o) ==
    \E k \in 1..Len(o.items) :
        \E r \in ItemRestaurant(items, sections, o.items[k].menu_item_id) :
            r # o.restaurant_id

(* C2: a create_order request one of whose lines names a menu item of a    *)
(* restaurant other than the resolved table's restaurant is answered 400   *)
(* and persists no order row, wherever that line stands in the list and    *)
(* however many other lines are valid.                                     *)
C2_ForeignItemRejected ==
    \A p \in OrdProcs :
        (ord[p].pc = "done" /\ ord[p].table_id # NoneId /\ NamesForeignItem(ord[p]))
            => (ord[p].status = 400 /\ OrderRowsOf(p) = {})

(* a valid first line followed by a line naming the other restaurant's     *)
(* item: the first line was accepted, the order was refused                *)
C2_Witness ==
    \E p \in OrdProcs :
        /\ ord[p].pc = "done" /\ ord[p].status = 400
        /\ Len(ord[p].items) = 2
        /\ Len(ord[p].order_items) = 1
        /\ NamesForeignItem([ord[p] EXCEPT !.items = <<ord[p].items[2]>>])
        /\ OrderRowsOf(p) = {}

(* some line read so far failed validation: its item was unknown to the    *)
(* table's restaurant or unavailable when looked up, or its quantity is    *)
(* not positive                                                            *)
SomeLineInvalid(o) ==
    \E k \in 1..Len(o.seen) :
        ~o.seen[k].belongs \/ ~o.seen[k].available \/ o.items[k].quantity <= 0

(* C16: a create_order request whose table code resolves and that has no   *)
(* lines, or one of whose lines names an unknown or unavailable item or    *)
(* has quantity <= 0, is answered 400 and persists no order row, wherever  *)
(* the failing line stands and however many lines before it were valid.    *)
C16_InvalidRequestRejected ==
    \A p \in OrdProcs :
        (ord[p].table_id # NoneId /\ (ord[p].len = 0 \/ SomeLineInvalid(ord[p])))
            => /\ OrderRowsOf(p) = {}
               /\ ord[p].pc = "done" => ord[p].status = 400

(* a valid first line followed by a line with quantity 0 for an available  *)
(* item of the same restaurant: refused, nothing stored                    *)
C16_Witness ==
    \E p \in OrdProcs :
        /\ ord[p].pc = "done" /\ ord[p].status = 400
        /\ Len(ord[p].items) = 2 /\ Len(ord[p].order_items) = 1
        /\ ord[p].seen[2].belongs /\ ord[p].seen[2].available
        /\ ord[p].items[2].quantity = 0
        /\ OrderRowsOf(p) = {}

(* C17: a create_order request whose table code matches no table is        *)
(* answered 404 whatever its item list, no line of it is read, and the     *)
(* request adds no order row.                                              *)
C17_UnknownTableNotFound ==
    \A p \in OrdProcs :
        (ord[p].pc # "idle" /\ \A t \in tables : t.unique_code # ord[p].table_code)
            => /\ ord[p].pc = "done" /\ ord[p].status = 404
               /\ ord[p].items = <<>>
               /\ OrderRowsOf(p) = {}

(* a request of two lines against the code "ZZZZZZZZ" was answered 404     *)
C17_Witness ==
    \E p \in OrdProcs :
        /\ ord[p].pc = "done" /\ ord[p].status = 404
        /\ ord[p].table_code = "ZZZZZZZZ" /\ ord[p].len = 2
        /\ OrderRowsOf(p) = {}

(* the order row that the request of p, about to run its INSERT, asks for: *)
(* the resolved table, the requested lines in request order with the       *)
(* prices seen at validation, status 'pending'                             *)
IsRequestedRow(r, o) ==
    /\ \E t \in tables : t.unique_code = o.table_code /\ t.id = r.table_id
    /\ Len(r.items) = o.len /\ Len(o.items) = o.len
    /\ \A k \in 1..o.len :
          /\ r.items[k].menu_item_id = o.items[k].menu_item_id
          /\ r.items[k].quantity = o.items[k].quantity
          /\ r.items[k].notes = o.items[k].special_requests
          /\ r.items[k].price = o.seen[k].price
    /\ r.status = "pending"

(* C18: the order rows change only in the INSERT step of a create_order    *)
(* request, which adds exactly one complete row (resolved table, the       *)
(* requested lines in order with item id, quantity, note and snapshot      *)
(* price, status 'pending') and answers 201 with status 'pending'; every   *)
(* other step, a failed INSERT included, leaves the order rows as they     *)
(* were, so a reader sees no row or the complete row.                      *)
C18_SingleCompleteInsert ==
    [][/\ orders' # orders =>
            \E p \in OrdProcs : \E r \in orders' :
                /\ ord[p].pc = "insert" /\ ord'[p].pc = "done" /\ ord'[p].status = 201
                /\ ord'[p].order_status = "pending"
                /\ r.id \notin {x.id : x \in orders}
                /\ orders' = orders \cup {r}
                /\ r.id = ord'[p].order_id
                /\ IsRequestedRow(r, ord[p])
       /\ \A p \in OrdProcs :
             (ord[p].pc = "insert" /\ ord'[p].pc = "done")
                => (ord'[p].status = 201 <=> orders' # orders)
       /\ \A r \in orders' : r.status = "pending" /\ r.items # <<>>]_vars

(* a stored two-line order whose second line carries a note                *)
C18_Witness ==
    \E p \in OrdProcs : \E r \in orders :
        /\ ord[p].pc = "done" /\ ord[p].status = 201 /\ ord[p].order_status = "pending"
        /\ OrderRowsOf(p) = {r}
        /\ Len(r.items) = 2
        /\ r.items[2].notes = "no onions" /\ r.items[1].notes = NoneId
        /\ r.status = "pending"

(* C30: the validation reads and the INSERT of create_order are separate   *)
(* statements: when a validated line's item has been deleted, made         *)
(* unavailable or re-priced by the time the INSERT runs, the INSERT step   *)
(* still commits the order (unless the statement itself fails), and the    *)
(* row holds every validated line at the price read during validation.     *)
C30_CommitsOverChangedMenu ==
    [][\A p \in OrdProcs :
          (/\ ord[p].pc = "insert"
           /\ MenuDrift(ord[p].order_items) # {}
           /\ ord'[p].pc = "done")
              => \/ ord'[p].status = 500 /\ orders' = orders
                 \/ /\ ord'[p].status = 201
                    /\ \E r \in orders' \ orders :
                          /\ r.by = p
                          /\ Len(r.items) = Len(ord[p].seen)
                          /\ \A k \in 1..Len(r.items) :
                                /\ r.items[k].menu_item_id = ord[p].items[k].menu_item_id
                                /\ r.items[k].price = ord[p].seen[k].price]_vars

(* a request whose only line was validated at one price, about to run its  *)
(* INSERT after the item was re-priced and made unavailable                *)
C30_Witness ==
    \E p \in OrdProcs :
        /\ ord[p].pc = "insert"
        /\ Len(ord[p].order_items) = 1
        /\ ord[p].seen[1].available
        /\ MenuDrift(ord[p].order_items) = {"repriced", "unavailable"}
        /\ \E i \in items : /\ i.id = ord[p].order_items[1].menu_item_id
                             /\ ~i.available
                             /\ i.price # ord[p].seen[1].price

----------------------------------------------------------------------------
(* Properties of the restaurant administration handlers                    *)

(* the step is a request to one of the handlers `ops` (a repeated request  *)
(* that changes nothing is a stuttering step)                              *)
Handled(ops) == resp'.op \in ops /\ (resp' # resp \/ store' # store)

(* C7: in the run where U1 creates restaurant R and invites e2 with        *)
(* can_manage_menu = true, the invite call succeeds (201) and persists the *)
(* invite that e2 is to redeem; and a delete-restaurant call by a user     *)
(* holding a plain 'manager' row for R returns 403 and leaves R in place.  *)
C7_OnboardingScenario ==
    [][/\ (/\ Handled({"invite_manager"})
           /\ \E m \in managers : /\ m.restaurant_id = resp'.rid
                                  /\ m.user_id = resp'.caller
                                  /\ m.role = "super_admin" /\ m.by = "create"
           /\ resp'.target = "e2" /\ resp'.flag
           /\ FindUserByEmail(users, "e2") = {}
           /\ \A i \in invites : i.restaurant_id # resp'.rid)
          => /\ resp'.status = 201
             /\ \E i \in invites' \ invites :
                   i.restaurant_id = resp'.rid /\ i.email = "e2" /\ i.can_manage_menu
       /\ (/\ Handled({"delete_restaurant"})
           /\ \E m \in managers : /\ m.restaurant_id = resp'.rid
                                  /\ m.user_id = resp'.caller
                                  /\ m.role = "manager")
          => /\ resp'.status = 403
             /\ restaurants' = restaurants]_vars

SuperOps ==
    {"update_restaurant", "delete_restaurant", "invite_manager", "remove_manager",
     "update_manager_permissions"}

(* C8: a request to update_restaurant, delete_restaurant, invite_manager,  *)
(* remove_manager or update_manager_permissions whose caller has no        *)
(* super_admin row for the target restaurant is answered 403 and changes   *)
(* no row of any table.                                                    *)
C8_SuperAdminRequired ==
    [][(/\ Handled(SuperOps)
        /\ SuperAdminRows(managers, resp'.rid, resp'.caller) = {})
       => (resp'.status = 403 /\ store' = store)]_vars

MemberOps == {"get_restaurant", "list_managers"}
MenuOps == {"create_menu_section"}

(* C9: after remove_manager deleted a user's row for a restaurant, or      *)
(* update_manager_permissions took the user's menu capability (and nothing *)
(* granted it again), a request by that user that needs the membership     *)
(* (get_restaurant, list_managers, create_menu_section) or the capability  *)
(* (create_menu_section) for that restaurant is answered 403.              *)
C9_RevocationImmediate ==
    /\ (/\ resp.op \in MemberOps \cup MenuOps
        /\ <<resp.rid, resp.caller, "member">> \in hist.revoked)
       => resp.status = 403
    /\ (/\ resp.op \in MenuOps
        /\ <<resp.rid, resp.caller, "menu">> \in hist.revoked)
       => resp.status = 403

(* C10: an invite_manager request by a super_admin of the restaurant is    *)
(* answered 409, persisting nothing, when the email is a manager's of that *)
(* restaurant or an invite for (restaurant, email) exists that has not     *)
(* expired; otherwise it is answered 201 and persists exactly one invite   *)
(* with that email, the requested can_manage_menu, a fresh token and       *)
(* expires_at = issue time + 7 days.                                       *)
C10_InviteOutcome ==
    [][(/\ Handled({"invite_manager"})
        /\ SuperAdminRows(managers, resp'.rid, resp'.caller) # {})
       => IF \/ ManagersByEmail(managers, users, resp'.rid, resp'.target) # {}
             \/ \E i \in invites : /\ i.restaurant_id = resp'.rid
                                   /\ i.email = resp'.target
                                   /\ i.expires_at > now
          THEN resp'.status = 409 /\ store' = store
          ELSE /\ resp'.status = 201
               /\ \E i \in invites' \ invites :
                     /\ invites' = invites \cup {i}
                     /\ i.restaurant_id = resp'.rid
                     /\ i.email = resp'.target
                     /\ i.can_manage_menu = resp'.flag
                     /\ i.token \notin {j.token : j \in invites}
                     /\ i.expires_at = now + 7 * TicksPerDay
               /\ UNCHANGED <<users, restaurants, managers, tables, sections, items,
                              orders>>]_vars

----------------------------------------------------------------------------
(* Properties of create_restaurant                                         *)

(* rows of the store that carry the restaurant id of p's request *)
CreatedRestaurants(p) == {r \in restaurants : r.id = create[p].restaurant_id}
CreatedGrants(p) == {m \in managers : m.restaurant_id = create[p].restaurant_id}

(* C12: create_restaurant writes the restaurant row and the creator's      *)
(* super_admin row in one transaction.  In every state of the store, which *)
(* is what a concurrent request reads, the new restaurant is there exactly *)
(* when the creator's super_admin row (with can_manage_menu) is there;     *)
(* while the request runs, and after it failed at begin, at either insert  *)
(* or at the commit, neither row is in the store; after a 201 both are.    *)
C12_CreateAtomic ==
    \A p \in CreateProcs :
        /\ CreatedRestaurants(p) # {} <=>
              SuperAdminRows(managers, create[p].restaurant_id, create[p].caller) # {}
        /\ CreatedGrants(p) \subseteq
              {CreatorManagerRow(create[p].restaurant_id, create[p].caller)}
        /\ (\/ create[p].pc \in {"insert_restaurant", "insert_manager", "commit"}
            \/ /\ create[p].pc = "done"
               /\ create[p].failed \in {"begin", "insert_restaurant", "insert_manager", "commit"})
           => (CreatedRestaurants(p) = {} /\ CreatedGrants(p) = {})
        /\ (create[p].pc = "done" /\ create[p].status = 201)
           => (/\ CreatedRestaurants(p) =
                     {CreateRestaurantRow(create[p].restaurant_id, create[p].name)}
               /\ CreatedGrants(p) # {})

(* one request failed at the manager insert, after its restaurant insert,  *)
(* and left nothing; a concurrent one committed both rows                  *)
C12_Witness ==
    \E p, q \in CreateProcs :
        /\ create[p].pc = "done" /\ create[p].failed = "insert_manager"
        /\ CreatedRestaurants(p) = {} /\ CreatedGrants(p) = {}
        /\ create[q].pc = "done" /\ create[q].status = 201
        /\ CreatedRestaurants(q) # {} /\ CreatedGrants(q) # {}

(* C14: get_restaurant and list_managers answer a caller who has no        *)
(* restaurant_managers row for the (existing) path restaurant with 403,    *)
(* so no restaurant or manager data is returned to a non-member.           *)
C14_MembersOnlyRead ==
    [][(/\ Handled({"get_restaurant", "list_managers"})
        /\ \E r \in restaurants : r.id = resp'.rid
        /\ ~\E m \in managers : m.restaurant_id = resp'.rid /\ m.user_id = resp'.caller)
       => resp'.status = 403]_vars

(* C20: an invite whose expiry has passed stays in the store (nothing      *)
(* deletes it, a redemption attempt included); and a super_admin who       *)
(* invites an email that belongs to no manager of the restaurant, while    *)
(* every invite for that (restaurant, email) has expired, is answered 201  *)
(* with a new invite added and the expired one still in place.             *)
C20_ExpiredInviteLapses ==
    [][/\ \A i \in invites : i.expires_at < now => i \in invites'
       /\ (/\ Handled({"invite_manager"})
           /\ SuperAdminRows(managers, resp'.rid, resp'.caller) # {}
           /\ ManagersByEmail(managers, users, resp'.rid, resp'.target) = {}
           /\ \E i \in invites : i.restaurant_id = resp'.rid /\ i.email = resp'.target
           /\ \A i \in invites :
                 (i.restaurant_id = resp'.rid /\ i.email = resp'.target)
                    => i.expires_at < now)
          => /\ resp'.status = 201
             /\ \E i \in invites' \ invites :
                   /\ invites' = invites \cup {i}
                   /\ i.restaurant_id = resp'.rid /\ i.email = resp'.target]_vars

----------------------------------------------------------------------------
(* Properties of the menu and table writes                                 *)

MenuWriteOps ==
    {"create_menu_section", "create_menu_item", "update_menu_item",
     "toggle_menu_item_availability", "delete_menu_item", "reorder_menu_items",
     "create_table", "update_table", "delete_table", "refresh_table_code"}

(* the caller has a restaurant_managers row for r with can_manage_menu     *)
CanManageMenu(c, r) ==
    \E m \in managers : m.restaurant_id = r /\ m.user_id = c /\ m.can_manage_menu

SymDiff(a, b) == (a \ b) \cup (b \ a)

(* the restaurants of the resource a request addresses, none when the      *)
(* resource does not exist                                                 *)
AddressedRestaurants(r) ==
    CASE r.op \in {"create_menu_section", "create_table", "update_table",
                   "delete_table", "refresh_table_code"} -> {r.rid}
      [] r.op = "create_menu_item" -> {s.restaurant_id : s \in {x \in sections : x.id = r.target}}
      [] r.op \in {"update_menu_item", "toggle_menu_item_availability", "delete_menu_item"} ->
            {s.restaurant_id : s \in {x \in sections :
                \E mi \in items : mi.id = r.target /\ mi.section_id = x.id}}
      [] r.op = "reorder_menu_items" ->
            IF \A k \in DOMAIN r.target : \E mi \in items : mi.id = r.target[k].item_id
            THEN {s.restaurant_id : s \in {x \in sections :
                    \E k \in DOMAIN r.target, mi \in items :
                        mi.id = r.target[k].item_id /\ mi.section_id = x.id}}
            ELSE {}
      [] OTHER -> {}

(* C13: a menu section, menu item or table row is created, changed or      *)
(* removed by a request only if the caller holds a restaurant_managers row *)
(* with can_manage_menu = TRUE for the row's restaurant at that moment;    *)
(* a request whose caller lacks that row for the addressed resource's      *)
(* restaurant is answered 403 and leaves the store as it was.  The role    *)
(* column plays no part.                                                   *)
C13_CapabilityGatesWrites ==
    [][resp'.op \in MenuWriteOps =>
        LET c == resp'.caller
            addressed == AddressedRestaurants(resp')
        IN /\ \A s \in SymDiff(sections, sections') : CanManageMenu(c, s.restaurant_id)
           /\ \A t \in SymDiff(tables, tables') : CanManageMenu(c, t.restaurant_id)
           /\ \A mi \in SymDiff(items, items') :
                 \E s \in sections : s.id = mi.section_id /\ CanManageMenu(c, s.restaurant_id)
           /\ (\E r \in addressed : ~CanManageMenu(c, r))
                 => resp'.status = 403 /\ store' = store
           /\ (addressed # {} /\ \A r \in addressed : CanManageMenu(c, r))
                 => resp'.status # 403
    ]_vars

(* a super_admin without the capability has just been refused on rA while  *)
(* rA carries a table created by the plain manager who has it              *)
C13_Witness ==
    /\ resp.op = "update_table" /\ resp.status = 403
    /\ \E m \in managers : /\ m.user_id = resp.caller /\ m.restaurant_id = resp.rid
                           /\ m.role = "super_admin" /\ ~m.can_manage_menu
    /\ \E t \in tables : /\ t.id = "t1" /\ t.restaurant_id = resp.rid
                         /\ \A m \in managers :
                               (m.restaurant_id = resp.rid /\ m.can_manage_menu)
                                  => m.role = "manager"

----------------------------------------------------------------------------
(* Properties of the order read handlers                                   *)

ListOps == {"list_restaurant_orders", "list_today_orders", "list_table_orders"}

(* C15: each of the three order list handlers answers a caller who has no  *)
(* restaurant_managers row for the path restaurant with 403 and an empty   *)
(* body, and returns order rows only to a caller who has such a row.       *)
C15_ListsMembersOnly ==
    [][resp'.op \in ListOps =>
        LET member == \E m \in managers :
                         m.restaurant_id = resp'.rid /\ m.user_id = resp'.caller
        IN /\ ~member => resp'.status = 403 /\ resp'.data = {}
           /\ member => resp'.status # 403
           /\ resp'.data # {} => member]_vars

(* a non-member has just been refused the list of a restaurant that has    *)
(* an order                                                                *)
C15_Witness ==
    /\ resp.op \in ListOps /\ resp.status = 403 /\ resp.data = {}
    /\ RestaurantOrders(resp.rid) # {}
    /\ ~\E m \in managers : m.restaurant_id = resp.rid /\ m.user_id = resp.caller

(* the order that the request of p created, as the request saw it: the     *)
(* prices read at validation and the total returned with the 201           *)
KeepsSnapshot(r, o) ==
    /\ r.total_amount = o.total_amount
    /\ Len(r.items) = Len(o.seen)
    /\ \A k \in 1..Len(o.seen) :
          r.items[k].price = o.seen[k].price /\ r.items[k].quantity = o.items[k].quantity

(* in this state get_order answers, for every order created, 200 with the *)
(* prices and the total of its creation                                    *)
SnapshotServed ==
    \A p \in DOMAIN ord :
        ord[p].status = 201 =>
            /\ \E r \in orders : r.id = ord[p].order_id /\ KeepsSnapshot(r, ord[p])
            /\ LET g == GetOrderResponse(ord[p].order_id)
               IN g.status = 200 /\ \E d \in g.data : KeepsSnapshot(d, ord[p])

(* C19: once created, an order's stored line snapshots and total_amount    *)
(* stay what they were at creation through menu item price updates,        *)
(* availability toggles, item deletions, further orders and manager        *)
(* removals, and get_order returns those snapshot prices and that total,   *)
(* not the current menu prices.                                            *)
C19_OrdersImmutable ==
    [][(\A o \in orders : o \in orders') /\ SnapshotServed']_vars

(* get_order has just returned the price 1 for an order taken before the   *)
(* item was re-priced or deleted, after a second order was stored          *)
C19_Witness ==
    /\ resp.op = "get_order" /\ resp.status = 200
    /\ Cardinality(orders) = 2
    /\ \E d \in resp.data :
          /\ d.items[1].price = 1
          /\ \A mi \in items : mi.id = d.items[1].menu_item_id => mi.price # 1
    /\ \E o \in orders : o.items[1].price # 1

(* C23: get_order answers 200 for every stored order and returns each of   *)
(* its lines, also when a line's menu item has been deleted since: that    *)
(* line carries the name 'Unknown Item', and every line carries the        *)
(* quantity, price and note of the stored snapshot.                        *)
C23_DeletedItemTolerated ==
    \A o \in orders :
        LET g == GetOrderResponse(o.id)
        IN /\ g.status = 200
           /\ \E d \in g.data :
                 /\ g.data = {d}
                 /\ Len(d.items) = Len(o.items)
                 /\ \A k \in 1..Len(o.items) :
                       /\ d.items[k].menu_item_id = o.items[k].menu_item_id
                       /\ d.items[k].quantity = o.items[k].quantity
                       /\ d.items[k].price = o.items[k].price
                       /\ d.items[k].special_requests = o.items[k].notes
                       /\ (\A mi \in items : mi.id # o.items[k].menu_item_id)
                             => d.items[k].menu_item_name = "Unknown Item"

(* get_order has just returned an order whose item was deleted             *)
C23_Witness ==
    /\ resp.op = "get_order" /\ resp.status = 200
    /\ items = {}
    /\ \E d \in resp.data :
          /\ d.items[1].menu_item_name = "Unknown Item"
          /\ d.items[1].special_requests = "no onions"
          /\ d.items[1].quantity = MaxQty

----------------------------------------------------------------------------
(* Properties of the token and password functions                          *)

(* C24: validate_token accepts a token if and only if the token is         *)
(* well formed, carries the signature of the validating manager's secret   *)
(* over its payload, and its exp is later than the time of the call.       *)
C24_ValidIffSignedAndUnexpired ==
    auth.last.op = "validate_token"
        => (auth.last.ok <=>
                /\ auth.last.token.parts = 3
                /\ auth.last.token.sig = Sign(auth.last.secret, auth.last.token.claims)
                /\ auth.last.token.claims.exp > auth.last.at)

(* the latest validate_token call was given the token of the latest        *)
(* generate_token call, unaltered, by a manager with the issuing secret,   *)
(* at the clock reading of the issue                                       *)
RoundTrip ==
    /\ auth.last.op = "validate_token"
    /\ auth.issued.token # NoToken
    /\ auth.last.token = auth.issued.token
    /\ auth.last.secret = auth.issued.secret
    /\ auth.last.at = auth.issued.at

----------------------------------------------------------------------------
(* Properties of register                                                  *)

(* user rows written by the register request of p *)
RegisteredBy(p) == {u \in users : u.by = p}

(* C27: no two user rows have the same email, whatever the interleaving of *)
(* register and join_restaurant requests; a registration made for an email *)
(* that already has a user writes no row and, unless the store fails on    *)
(* its lookup, is answered 409; every other registration writes one row    *)
(* (201) or none.                                                          *)
C27_UniqueEmail ==
    /\ \A u, v \in users : u.email = v.email => u = v
    /\ \A p \in RegProcs :
          /\ (reg[p].pc = "done" /\ reg[p].existed)
                 => /\ RegisteredBy(p) = {}
                    /\ reg[p].failed = NoneId => reg[p].status = 409
          /\ reg[p].status = 201 => Cardinality(RegisteredBy(p)) = 1
          /\ reg[p].status \in {409, 500} /\ reg[p].failed # "respond"
                 => RegisteredBy(p) = {}

(* two registrations and a redemption for e2 raced: one registration won,  *)
(* the other lost at the INSERT, and a later one was answered 409          *)
C27_Witness ==
    /\ \E u \in users : u.email = "e2" /\ u.by = "r1"
    /\ reg["r1"].status = 201
    /\ reg["r2"].pc = "done" /\ reg["r2"].email = "e2" /\ reg["r2"].status = 500
    /\ reg["r2"].failed = "insert" /\ ~reg["r2"].existed
    /\ join["j1"].pc = "done" /\ join["j1"].status = 500

----------------------------------------------------------------------------
(* Properties of the table codes                                           *)

(* C28: no two tables carry the same lookup code, whatever the             *)
(* interleaving of create_table and refresh_table_code requests, so a code *)
(* resolves to at most one (restaurant, table) pair.                       *)
C28_UniqueTableCode ==
    /\ \A t, u \in tables : t.unique_code = u.unique_code => t = u
    /\ \A c \in DrawnCodes :
           Cardinality({<<t.restaurant_id, t.id>> : t \in {x \in tables : x.unique_code = c}}) <= 1

(* two requests drew the same code and both found it free: one wrote its   *)
(* row, the other lost at its write                                        *)
C28_Witness ==
    /\ tab["p1"].pc = "done" /\ tab["p1"].op = "create_table" /\ tab["p1"].status = 201
    /\ tab["p2"].pc = "done" /\ tab["p2"].op = "refresh_table_code"
    /\ tab["p2"].passed /\ tab["p2"].failed = "write"
    /\ tab["p1"].code = tab["p2"].code
    /\ \E t \in tables : t.id = NewTableId("p1") /\ t.unique_code = tab["p1"].code

----------------------------------------------------------------------------
(* Properties of the rate limiter                                          *)

RECURSIVE SumPassed(_, _)
SumPassed(f, S) ==
    IF S = {} THEN 0
    ELSE LET s == CHOOSE x \in S : TRUE IN f[s] + SumPassed(f, S \ {s})

(* the calls of an address that were let pass at instants from t up to,    *)
(* but not including, t + window                                           *)
PassedFrom(ip, t) ==
    SumPassed(contact.passed[ip],
              {s \in LimiterInstants : t <= s /\ s - t < contact.window})

(* the calls of an address that were let pass less than a window before    *)
(* the latest call, that call included                                     *)
PassedBeforeLast ==
    SumPassed(contact.passed[contact.last.ip],
              {s \in LimiterInstants : s <= contact.last.at
                                          /\ contact.last.at - s < contact.window})

----------------------------------------------------------------------------
(* Properties of the routes                                                *)

(* what validate_token of the server says about the token the client holds *)
Presented == Decode(ServerManager.secret, auth.token, auth.clock, auth.leeway)

(* the step is one of a handler: it answers, writes rows or moves a        *)
(* create_order request on                                                 *)
HandlerStep == resp' # resp \/ store' # store \/ ord' # ord

(* the step is a request to a route of the /api scope (the handlers of     *)
(* create_order leave resp alone and move ord)                             *)
ApiStep ==
    \/ resp' # resp /\ resp'.op \in ApiRoutes
    \/ resp' = resp /\ resp.op \in ApiRoutes /\ store' # store /\ ord' = ord

(* a request to a route of the /api scope: 401 and no write unless the     *)
(* presented token is accepted, and then the caller of the handler is the  *)
(* subject of that token                                                   *)
BehindBearer ==
    ApiStep =>
        IF Presented.ok
        THEN resp'.caller = Presented.claims.sub /\ resp'.status # 401
        ELSE resp'.status = 401 /\ resp'.caller = NoneId /\ store' = store /\ ord' = ord

(* a handler that runs for a client without an accepted token belongs to   *)
(* one of the routes `open`                                                *)
OnlyOpen(open) ==
    (HandlerStep /\ ~Presented.ok /\ ~(resp' # resp /\ resp'.status = 401))
        => \/ resp' # resp /\ resp'.op \in open /\ store' = store /\ ord' = ord
           \/ resp' = resp /\ "create_order" \in open /\ ord' # ord

(* C31 as stated: every route of the /api scope is behind the bearer       *)
(* middleware and uses the subject of the token as caller, and register,   *)
(* login, join_restaurant, the public menu, create_order and get_order are *)
(* the only handlers that run without a token.                             *)
C31_OnlySixRunWithoutToken ==
    [][/\ BehindBearer
       /\ OnlyOpen({"register", "login", "join_restaurant", "get_public_menu",
                    "create_order", "get_order"})]_vars

(* C31, amended: the same, with the health handler, which runs no          *)
(* statement on the pool, among the handlers that run without a token.     *)
C31_ApiBehindBearer ==
    [][/\ BehindBearer
       /\ OnlyOpen(AuthRoutes \cup RootRoutes)]_vars

(* a client holding a token signed with another secret for the super_admin *)
(* u1 was refused by remove_manager, and the manager u2 is still there     *)
C31_Witness ==
    /\ resp.op = "remove_manager" /\ resp.status = 401
    /\ auth.token.parts = 3
    /\ auth.token.claims.sub = "u1"
    /\ auth.token.sig.key # ServerManager.secret
    /\ \E m \in managers : m.user_id = "u2"

----------------------------------------------------------------------------
(* Properties of the super_admin rows                                      *)

(* C32: every restaurant that exists has at least one restaurant_managers  *)
(* row with the role super_admin, whatever requests were served.           *)
C32_RestaurantKeepsSuperAdmin ==
    \A r \in restaurants :
        \E m \in managers : m.restaurant_id = r.id /\ m.role = "super_admin"

(* the restaurant_managers rows of a (restaurant, user) pair *)
SameGrant(mgrs, n) ==
    {m \in mgrs : m.restaurant_id = n.restaurant_id /\ m.user_id = n.user_id}

(* C33: a step never changes the role of a restaurant_managers row, and a  *)
(* super_admin row appears only in a create_restaurant step, for the new   *)
(* restaurant and the caller of that request.                              *)
C33_RoleFixedAtCreation ==
    [][\A n \in managers' :
          IF SameGrant(managers, n) # {}
          THEN \A m \in SameGrant(managers, n) : m.role = n.role
          ELSE n.role = "super_admin"
                  => /\ resp' # resp
                     /\ resp'.op = "create_restaurant" /\ resp'.status = 201
                     /\ n.user_id = resp'.caller
                     /\ n.restaurant_id = resp'.rid
                     /\ n.restaurant_id \notin {r.id : r \in restaurants}]_vars

(* the invite was redeemed for a manager row whose capability was changed  *)
(* afterwards, and the joined user created a restaurant of their own       *)
C33_Witness ==
    /\ join["j1"].pc = "done" /\ join["j1"].status = 200
    /\ \E m \in managers : /\ m.restaurant_id = RestaurantA
                           /\ m.user_id = NewUserId("j1")
                           /\ m.role = "manager"
                           /\ m.can_manage_menu
    /\ \E m \in managers : /\ m.restaurant_id = RestaurantB
                           /\ m.user_id = NewUserId("j1")
                           /\ m.role = "super_admin"
    /\ \A m \in managers : m.role = "super_admin" /\ m.restaurant_id = RestaurantB
                              => m.user_id = NewUserId("j1")

----------------------------------------------------------------------------
(* Properties of invitations issued next to each other                     *)

(* the invites of (restaurant, email) whose expiry lies ahead *)
NonExpiredInvites(restaurant_id, email) ==
    {i \in invites : /\ i.restaurant_id = restaurant_id
                     /\ i.email = email
                     /\ i.expires_at > now}

(* C34: there is never more than one non-expired invite for a              *)
(* (restaurant, email), and of two invite_manager requests for the same    *)
(* (restaurant, email) that both arrived while nothing stood against the   *)
(* invitation, and that met no store error, one has persisted its invite.  *)
C34_OneInvitePersists ==
    /\ \A r \in restaurants : \A e \in RaceEmails :
          Cardinality(NonExpiredInvites(r.id, e)) <= 1
    /\ \A p \in InviteProcs : \A q \in InviteProcs \ {p} :
          (/\ inv[p].pc = "done" /\ inv[q].pc = "done"
           /\ inv[p].clear /\ inv[q].clear
           /\ inv[p].restaurant_id = inv[q].restaurant_id
           /\ inv[p].email = inv[q].email
           /\ inv[p].status # 500 /\ inv[q].status # 500)
              => Cardinality(NonExpiredInvites(inv[p].restaurant_id, inv[p].email)) = 1

----------------------------------------------------------------------------
(* Properties of writes addressed across restaurants                       *)

(* the menu sections, tables and menu items of one restaurant              *)
RowsOfRestaurant(secs, tbls, itms, restaurant_id) ==
    [sections |-> {s \in secs : s.restaurant_id = restaurant_id},
     tables |-> {t \in tbls : t.restaurant_id = restaurant_id},
     items |-> {mi \in itms : \E s \in secs : s.id = mi.section_id
                                             /\ s.restaurant_id = restaurant_id}]

----------------------------------------------------------------------------
(* Properties of the order lists across restaurants                        *)

(* the restaurants of the table an order response names                    *)
RestaurantsOfOrder(d) == {t.restaurant_id : t \in {x \in tables : x.id = d.table_id}}

(* C36: list_table_orders answers a caller who passed the membership check *)
(* with 404 and no order when the path table is not a table of the path    *)
(* restaurant; every order returned by list_restaurant_orders,             *)
(* list_today_orders or list_table_orders belongs to a table of the        *)
(* restaurant whose membership was checked, so a caller receives no order  *)
(* of a restaurant for which the caller holds no restaurant_managers row.  *)
C36_ListsStayInRestaurant ==
    [][resp'.op \in ListOps =>
        /\ (/\ resp'.op = "list_table_orders"
            /\ ManagerCount(managers, resp'.rid, resp'.caller) > 0
            /\ TableRows(tables, resp'.rid, resp'.target) = {})
              => resp'.status = 404 /\ resp'.data = {}
        /\ \A d \in resp'.data :
              /\ RestaurantsOfOrder(d) = {resp'.rid}
              /\ \E m \in managers :
                    m.user_id = resp'.caller /\ m.restaurant_id \in RestaurantsOfOrder(d)
    ]_vars

(* u1, a member of rA only, has just asked for the orders of rB's table     *)
(* under the path of rA while both tables carry an order: 404, no order    *)
C36_Witness ==
    /\ resp.op = "list_table_orders" /\ resp.caller = "u1" /\ resp.status = 404
    /\ resp.rid = RestaurantA /\ resp.target = "tB" /\ resp.data = {}
    /\ \A m \in managers : m.user_id = "u1" => m.restaurant_id = RestaurantA
    /\ \E o \in orders : o.table_id = "tB"
    /\ \E o \in orders : o.table_id = "tA"

----------------------------------------------------------------------------
(* Properties of a rotated table code                                      *)

(* the step is a refresh_table_code answered 200 (the create_order steps   *)
(* leave resp alone and change ord)                                        *)
RefreshSucceeds ==
    resp'.op = "refresh_table_code" /\ resp'.status = 200 /\ ord' = ord

(* the step is the table lookup of the create_order request of p           *)
LooksTableUp(p) == ord[p].pc = "idle" /\ ord'[p].pc # "idle"

(* C37: a refresh_table_code that succeeds gives the table a code other    *)
(* than its previous one, after which no table carries the previous code   *)
(* and the new code is carried by the same table of the same restaurant;   *)
(* create_order answers a code that no table carries with 404, whatever    *)
(* table carried it before, and resolves a code to the table carrying it;  *)
(* a code carried by no table stays so until create_table or               *)
(* refresh_table_code assigns it; and the orders and the tables they are   *)
(* attached to are left as they were by the refresh.                       *)
C37_RefreshRetiresCode ==
    [][/\ RefreshSucceeds =>
            \E t \in tables, n \in tables' :
                /\ t.id = resp'.target /\ n.id = t.id
                /\ n.restaurant_id = t.restaurant_id
                /\ n.unique_code # t.unique_code
                /\ FindTableByCode(tables', t.unique_code) = {}
                /\ FindTableByCode(tables', n.unique_code) = {n}
                /\ tables' \ {n} = tables \ {t}
                /\ orders' = orders
                /\ \A o \in orders : o.table_id = t.id =>
                      \E x \in tables' : x.id = o.table_id /\ x.restaurant_id = t.restaurant_id
       /\ \A p \in DOMAIN ord : LooksTableUp(p) =>
            LET found == FindTableByCode(tables, ord'[p].table_code)
            IN IF found = {}
               THEN ord'[p].pc = "done" /\ ord'[p].status = 404
               ELSE /\ ord'[p].status # 404
                    /\ \E t \in found : /\ ord'[p].table_id = t.id
                                        /\ ord'[p].restaurant_id = t.restaurant_id
       /\ \A code \in RotatedCodes :
            (FindTableByCode(tables, code) = {} /\ FindTableByCode(tables', code) # {})
               => /\ resp'.op \in {"create_table", "refresh_table_code"}
                  /\ resp'.status \in {200, 201}
    ]_vars

(* tA was given codeN after an order was placed under codeA; the order is  *)
(* still attached to tA, no table carries codeA, and a later create_order  *)
(* with codeA was answered 404                                             *)
C37_Witness ==
    /\ resp.op = "refresh_table_code" /\ resp.status = 200 /\ resp.target = "tA"
    /\ \E t \in tables : t.id = "tA" /\ t.unique_code = "codeN"
    /\ FindTableByCode(tables, "codeA") = {}
    /\ ord["o1"].table_code = "codeA" /\ ord["o1"].status = 201
    /\ \E o \in orders : o.id = ord["o1"].order_id /\ o.table_id = "tA"
    /\ ord["o2"].table_code = "codeA" /\ ord["o2"].status = 404

----------------------------------------------------------------------------
(* Properties of the password reset                                        *)

(* the step ends the request of p with this status                         *)
ResetAnswers(p, status) == reset[p].pc # "done" /\ reset'[p].pc = "done"
                           /\ reset'[p].status = status

(* C38: a password-reset token changes a password at most once: a          *)
(* confirm_password_reset succeeds only with a token that no confirmation  *)
(* has used up to that moment, so a later or a concurrent confirmation     *)
(* with the same token fails, and a confirmation that fails leaves the     *)
(* password hashes as they were.                                           *)
C38_TokenUsedOnce ==
    [][\A p \in ResetProcs :
          /\ ResetAnswers(p, 200) =>
                \E r \in reset_tokens : r.token = reset[p].token /\ r.used_at = {}
          /\ (ResetAnswers(p, 400) \/ ResetAnswers(p, 500)) => users' = users
    ]_vars

----------------------------------------------------------------------------
(* Properties of reorder_menu_items                                        *)

(* the list is not empty, every listed item exists and the caller has      *)
(* can_manage_menu for the restaurant of every listed item                 *)
ReorderAllowed(caller, item_orders) ==
    /\ item_orders # <<>>
    /\ \A k \in DOMAIN item_orders :
          LET rs == ItemRestaurant(items, sections, item_orders[k].item_id)
          IN rs # {} /\ \A r \in rs : CanManageMenu(caller, r)

(* C39: reorder_menu_items is all-or-nothing: it changes no display_order  *)
(* unless the list is non-empty, every listed item exists and the caller   *)
(* has can_manage_menu for the restaurant of every listed item; a request  *)
(* that is answered with an error has changed no item; a request that      *)
(* succeeds leaves each listed item with the display_order given for it    *)
(* and every unlisted item as it was.                                      *)
C39_ReorderAllOrNothing ==
    [][resp'.op = "reorder_menu_items" =>
        LET q == resp'.target
        IN /\ ~ReorderAllowed(resp'.caller, q) => items' = items /\ resp'.status # 200
           /\ resp'.status # 200 => items' = items
           /\ resp'.status = 200 =>
                 /\ \A k \in DOMAIN q : \E mi \in items' :
                       mi.id = q[k].item_id /\ mi.display_order = q[k].display_order
                 /\ \A mi \in items :
                       (\A k \in DOMAIN q : q[k].item_id # mi.id) => mi \in items'
                 /\ {mi.id : mi \in items'} = {mi.id : mi \in items}
    ]_vars

====
